---------------------------- MODULE Spec2Model ----------------------------
(***************************************************************************)
(* A model of the QuickBooks migrator                                      *)
(* (qb_connect/quickbooks_connector/quickbooks_migrator.py).               *)
(*                                                                         *)
(* The state of each component of the migrator is one record variable, and *)
(* each component has its own specification, which leaves the other        *)
(* components at rest:                                                     *)
(*   SpecHttp   the outbound calls _get, _post, _get_sync_token and the    *)
(*              token refresh they trigger on a 401 response               *)
(*   SpecFetch  the count query and paginated selects of _migrate_entries  *)
(*   SpecFY     _create_fiscal_years (SpecFYFair: with the fairness of a   *)
(*              running loop, for termination)                             *)
(*   SpecGL     _fetch_general_ledger and _get_gl_entries_from_section     *)
(*   SpecSave   _save_entries on one batch of one entity type, with the    *)
(*              handlers of the entity types                               *)
(*   SpecItems  _save_entries on one transaction with taxed item lines     *)
(*   SpecAccounts  _save_entries on a chart of accounts                    *)
(*   SpecMigrate  _migrate: whole runs, one after the other, on the same   *)
(*              source data; run.events lists the requests and saves of    *)
(*              the current run in the order made                          *)
(*   SpecLedger  the last phase of a run: _migrate_entries_from_gl on a    *)
(*              reconstructed general ledger                               *)
(***************************************************************************)
EXTENDS Integers, Sequences, FiniteSets, TLC

VARIABLES
    http,     \* token manager and the outbound call in progress
    fetch,    \* entity fetcher: the locals of _migrate_entries
    fy,       \* fiscal year extender: the state of _create_fiscal_years
    gl,       \* general ledger reconstructor: the state of _fetch_general_ledger
    save,     \* _save_entries on one batch, and the target's documents
    run       \* _migrate: the steps of a run, its status, and the target

vars == <<http, fetch, fy, gl, save, run>>

\* What each component leaves alone.
notHttp == <<fetch, fy, gl, save, run>>
notFetch == <<http, fy, gl, save, run>>
notFY == <<http, fetch, gl, save, run>>
notGL == <<http, fetch, fy, save, run>>
notSave == <<http, fetch, fy, gl, run>>
notRun == <<http, fetch, fy, gl, save>>

-----------------------------------------------------------------------------
(***************************************************************************)
(* Token manager and outbound calls.                                       *)
(*                                                                         *)
(* Fields of http:                                                         *)
(*   access_token, refresh_token   the fields of the migrator record, as   *)
(*                   the generation of the token held                      *)
(*   pc              position of the outbound call                         *)
(*   method          which outbound call runs                              *)
(*   depth           nested activations of the call (it calls itself)      *)
(*   requests_sent   HTTP requests issued by the current outbound call     *)
(*   refresh_calls   _refresh_tokens calls made by the current call        *)
(*   auth_header     token carried by the Authorization header last sent   *)
(*   status_code     status of the last response                           *)
(*   error           the exception that left the outbound call, or "none"  *)
(*   refresh_result  outcome of the last oauth.refresh_token of this call  *)
(*   calls_made      outbound calls completed so far                       *)
(***************************************************************************)

\* The interpreter's recursion limit, scaled down: the nested activation that
\* would exceed it raises RecursionError.
RecursionLimit == 4

\* Outbound calls made in one behaviour.
MaxCalls == 2

Methods == {"_get", "_post", "_get_sync_token"}

\* Statuses the server may answer with; 401 is the one the code tests for.
StatusCodes == {200, 401, 500}

\* Outcomes of oauth.refresh_token: a new token pair, or an exception.
RefreshOutcomes == {"ok", "fails"}

\* The token manager after get_tokens, no outbound call running.
HttpIdle ==
    [access_token |-> 0, refresh_token |-> 0, pc |-> "idle", method |-> "_get",
     depth |-> 0, requests_sent |-> 0, refresh_calls |-> 0, auth_header |-> 0,
     status_code |-> 0, error |-> "none", refresh_result |-> "none",
     calls_made |-> 0]

\* The entity fetcher at rest.
FetchIdle ==
    [source |-> <<>>, max_result_count |-> 0, pc |-> "off", entry_count |-> 0,
     start_position |-> 0, entries |-> <<>>, windows |-> <<>>,
     saved_batch |-> <<>>, log |-> 0]

\* No date: the empty string of a ledger line without a date.
NoDate == [y |-> 0, m |-> 0, d |-> 0]

\* The fiscal year extender at rest.
FYIdle ==
    [pc |-> "off", line_dates |-> <<>>, smallest_ledger_entry_date |-> NoDate,
     fiscal_years |-> <<>>, oldest_fiscal_year |-> [year_start_date |-> NoDate,
                                                    year_end_date |-> NoDate],
     first_start |-> NoDate, created |-> <<>>, log |-> 0]

\* The general ledger reconstructor at rest: no report, neither map set.
GLIdle ==
    [pc |-> "off", report |-> <<>>, next_section |-> 0, gl_entries |-> <<>>,
     general_ledger |-> <<>>, log |-> 0]

\* _save_entries at rest, on an empty target.
SaveIdle ==
    [pc |-> "off", entity |-> "", batch |-> <<>>, index |-> 0, published |-> <<>>,
     docs |-> <<>>, log |-> 0, escaped |-> FALSE, general_ledger |-> <<>>,
     undeposited_funds_account |-> <<"None", 0>>]

\* No run was started.
RunIdle ==
    [pc |-> "off", step |-> 0, status |-> "", run_errors |-> 0, run_no |-> 0,
     docs_before |-> 0, source |-> <<>>, fault |-> <<>>, entries |-> <<>>,
     fiscal_years |-> <<>>, ledger_set |-> FALSE,
     docs |-> <<>>, log |-> 0, escaped |-> FALSE, general_ledger |-> <<>>,
     undeposited_funds_account |-> <<"None", 0>>, events |-> <<>>]

HttpInit ==
    /\ run = RunIdle
    /\ http = HttpIdle
    /\ fetch = FetchIdle
    /\ fy = FYIdle
    /\ gl = GLIdle
    /\ save = SaveIdle

\* A caller enters _get, _post or _get_sync_token.
OutboundCall ==
    /\ http.pc = "idle"
    /\ http.calls_made < MaxCalls
    /\ \E m \in Methods :
          http' = [http EXCEPT !.method = m, !.pc = "send", !.depth = 1,
                               !.requests_sent = 0, !.refresh_calls = 0,
                               !.error = "none", !.refresh_result = "none"]
    /\ UNCHANGED notHttp

\* What an activation does with the response it got: on 401 it goes on to
\* refresh the tokens, on any other status it returns the response.
AfterResponse(status) == IF status = 401 THEN "refresh" ELSE "returned"

\* The headers of the first activation are passed on to the retry as they
\* were built.
BearerToken_passedOn ==
    IF http.requests_sent = 0 THEN http.access_token ELSE http.auth_header

\* "Authorization": "Bearer {}".format(self.access_token), built anew by
\* every activation.
BearerToken == http.access_token

\* One activation of _get / _post / _get_sync_token up to the test of the
\* status: build the headers from the token held now, issue the request.
\* requests.get / requests.request is called without a timeout: when the
\* server sends no response the activation stays in the call ("waiting").
SendRequest ==
    /\ http.pc = "send"
    /\ \/ \E s \in StatusCodes :
             http' = [http EXCEPT !.auth_header = BearerToken,
                                  !.requests_sent = @ + 1,
                                  !.status_code = s,
                                  !.pc = AfterResponse(s)]
       \/ http' = [http EXCEPT !.auth_header = BearerToken,
                               !.requests_sent = @ + 1,
                               !.pc = "waiting"]
    /\ UNCHANGED notHttp

\* The tokens held after _refresh_tokens, by the outcome of oauth.refresh_token:
\* both fields are assigned only after the call returned.
TokensAfterRefresh(outcome) ==
    IF outcome = "ok"
    THEN [access |-> http.access_token + 1, refresh |-> http.refresh_token + 1]
    ELSE [access |-> http.access_token, refresh |-> http.refresh_token]

\* A refresh whose exception is swallowed: the call goes on to the retry.
AfterRefresh_swallowed(outcome) ==
    IF http.depth >= RecursionLimit THEN "RecursionError" ELSE "none"

\* Where the activation continues after _refresh_tokens: the exception of a
\* failed refresh leaves the outbound call; otherwise the call calls itself.
AfterRefresh(outcome) ==
    IF outcome = "fails" THEN "RefreshError"
    ELSE IF http.depth >= RecursionLimit THEN "RecursionError"
    ELSE "none"

\* The 401 branch: self._refresh_tokens(), then the recursive call.
_refresh_tokens ==
    /\ http.pc = "refresh"
    /\ \E outcome \in RefreshOutcomes :
          http' = [http EXCEPT
                     !.refresh_calls = @ + 1,
                     !.refresh_result = outcome,
                     !.access_token = TokensAfterRefresh(outcome).access,
                     !.refresh_token = TokensAfterRefresh(outcome).refresh,
                     !.error = AfterRefresh(outcome),
                     !.pc = IF AfterRefresh(outcome) = "none" THEN "send" ELSE "raised",
                     !.depth = IF AfterRefresh(outcome) = "none" THEN @ + 1 ELSE @]
    /\ UNCHANGED notHttp

\* The outbound call has returned or raised; the caller goes on.
CallEnds ==
    /\ http.pc \in {"returned", "raised"}
    /\ http' = [http EXCEPT !.pc = "idle", !.depth = 0, !.calls_made = @ + 1]
    /\ UNCHANGED notHttp

HttpNext == OutboundCall \/ SendRequest \/ _refresh_tokens \/ CallEnds

SpecHttp == HttpInit /\ [][HttpNext]_vars

\* The interpreter runs on: a step of the code that can be taken is taken.
SpecHttpFair == HttpInit /\ [][HttpNext]_vars /\ WF_vars(HttpNext)

\* C1: one outbound call never issues more than two HTTP requests nor more
\* than one token refresh (a 401 is answered by one refresh and one retry).
C1_SingleRefreshSingleRetry == http.requests_sent <= 2 /\ http.refresh_calls <= 1

\* C2: once the refresh triggered by a 401 has failed, the error has left the
\* outbound call (it is with the caller), no further request is issued and the
\* held access and refresh tokens are the ones held before the refresh.
C2_FailedRefreshPropagates ==
    [][http'.refresh_result = "fails" =>
          /\ http'.error = "RefreshError"
          /\ http'.pc \in {"raised", "idle"}
          /\ http'.requests_sent = http.requests_sent
          /\ http'.access_token = http.access_token
          /\ http'.refresh_token = http.refresh_token]_vars

\* C2 witness: a 401 was answered, the refresh failed after an earlier one had
\* replaced the tokens, and the error reached the caller.
C2_Witness ==
    /\ http.pc = "raised"
    /\ http.refresh_result = "fails"
    /\ http.status_code = 401
    /\ http.refresh_calls = 2
    /\ http.access_token = 1

\* C26: the request sent after a refresh of this call succeeded carries
\* the access token that the refresh stored, which is not the token carried
\* by the request that was answered 401.
C26_RetryCarriesNewToken ==
    [][(/\ http.pc = "send"
        /\ http.refresh_result = "ok"
        /\ http'.requests_sent = http.requests_sent + 1)
       => /\ http'.auth_header = http.access_token
          /\ http'.auth_header # http.auth_header
          /\ http.status_code = 401]_vars

\* C26 witness: the second request of a call, sent after a 401 and a
\* successful refresh, carried the token of generation 1 and was answered
\* 200.
C26_Witness ==
    /\ http.pc = "returned"
    /\ http.requests_sent = 2
    /\ http.refresh_calls = 1
    /\ http.refresh_result = "ok"
    /\ http.access_token = 1
    /\ http.auth_header = 1
    /\ http.status_code = 200

\* C18: every outbound call that was entered ends: it returns a response to
\* its caller or an error leaves it.
C18_OutboundCallTerminates ==
    (http.pc = "send") ~> (http.pc \in {"returned", "raised"})

-----------------------------------------------------------------------------
(***************************************************************************)
(* Entity fetcher: the count query and the paginated selects of            *)
(* _migrate_entries.  The outbound call is one step here: it answers or    *)
(* raises.                                                                 *)
(*                                                                         *)
(* Fields of fetch:                                                        *)
(*   source            the records the server holds for the entity         *)
(*   max_result_count  window size of the paginated select                 *)
(*   pc                position inside _migrate_entries                    *)
(*   entry_count       totalCount answered to the count query              *)
(*   start_position    loop variable of the page loop                      *)
(*   entries           the list accumulated from the pages                 *)
(*   windows           <<STARTPOSITION, MAXRESULTS>> of every select       *)
(*   saved_batch       the list handed to _save_entries                    *)
(*   log               errors logged by _migrate_entries                   *)
(***************************************************************************)

\* The window size the code uses.
CodeMaxResultCount == 1000

\* Small window sizes and record counts, so that many windows happen.
MaxPageSize == 3
MaxRecords == 7

\* Record counts tried with the code's window size: none, one window not
\* full, exactly full, one record more, and more than two windows.
CodeWindowCounts ==
    {0, 1, CodeMaxResultCount - 1, CodeMaxResultCount, CodeMaxResultCount + 1,
     2 * CodeMaxResultCount + MaxRecords}

FetchInputs ==
    {<<m, n>> : m \in 1..MaxPageSize, n \in 0..MaxRecords}
        \cup {<<CodeMaxResultCount, n>> : n \in CodeWindowCounts}

\* The server's records of one entity: record i is the i-th in its order.
SourceRecords(n) == [i \in 1..n |-> i]

Min(a, b) == IF a <= b THEN a ELSE b

\* The server's answer to SELECT COUNT(*) FROM entity.
CountResponse(src) == Len(src)

\* The server's answer to SELECT * FROM entity STARTPOSITION s MAXRESULTS m:
\* the records at positions s .. s+m-1 that exist (positions count from 1).
QueryResponse(src, s, m) ==
    IF s < 1 THEN SubSeq(src, 1, Min(m, Len(src)))
    ELSE SubSeq(src, s, Min(s + m - 1, Len(src)))

\* A select whose window is written zero-based.
PageQuery_zeroBased(s, m) == <<s - 1, m>>

\* The select _migrate_entries issues for loop value s.
PageQuery(s, m) == <<s, m>>

\* range(1, entry_count + 1, max_result_count): its first value.
RangeStart == 1

\* A page loop that starts one position earlier.
StartPosition_fromZero(entry_count) == RangeStart - 1

\* The first value of the loop variable for a count.
StartPosition(entry_count) == RangeStart

FetchInit ==
    /\ run = RunIdle
    /\ save = SaveIdle
    /\ http = HttpIdle
    /\ fy = FYIdle
    /\ gl = GLIdle
    /\ \E in \in FetchInputs :
          fetch = [FetchIdle EXCEPT !.max_result_count = in[1],
                                    !.source = SourceRecords(in[2]),
                                    !.pc = "count"]

\* response = self._get(count query); entry_count = ...get("totalCount").
\* When this first _get raises, the handler's own use of `response` raises.
CountQuery ==
    /\ fetch.pc = "count"
    /\ \/ fetch' = [fetch EXCEPT !.entry_count = CountResponse(fetch.source),
                                 !.start_position =
                                     StartPosition(CountResponse(fetch.source)),
                                 !.pc = "pages"]
       \/ fetch' = [fetch EXCEPT !.pc = "escaped"]
    /\ UNCHANGED notFetch

\* One iteration of the page loop: select a window, extend the list.  A
\* _get that raises here is caught and logged by _migrate_entries.
FetchPage ==
    /\ fetch.pc = "pages"
    /\ fetch.start_position < fetch.entry_count + 1
    /\ LET q == PageQuery(fetch.start_position, fetch.max_result_count) IN
       \/ fetch' = [fetch EXCEPT
                      !.windows = Append(@, q),
                      !.entries = @ \o QueryResponse(fetch.source, q[1], q[2]),
                      !.start_position = @ + fetch.max_result_count]
       \/ fetch' = [fetch EXCEPT !.pc = "logged", !.log = @ + 1]
    /\ UNCHANGED notFetch

\* The loop has ended: the accumulated list is preprocessed and saved.
SaveFetched ==
    /\ fetch.pc = "pages"
    /\ ~(fetch.start_position < fetch.entry_count + 1)
    /\ fetch' = [fetch EXCEPT !.saved_batch = fetch.entries, !.pc = "done"]
    /\ UNCHANGED notFetch

FetchNext == CountQuery \/ FetchPage \/ SaveFetched

SpecFetch == FetchInit /\ [][FetchNext]_vars

\* Number of windows of size m that cover n records.
WindowsNeeded(n, m) == (n + m - 1) \div m

\* C3: when the page loop has ended, the accumulated list is the source's
\* records 1..n in source order (each exactly once), and the selects issued
\* are the windows starting at 1 and advancing by the page size.
C3_PagesConcatenateToSource ==
    fetch.pc = "done" =>
        /\ fetch.saved_batch = fetch.source
        /\ fetch.windows =
              [k \in 1..WindowsNeeded(Len(fetch.source), fetch.max_result_count) |->
                  <<1 + (k - 1) * fetch.max_result_count, fetch.max_result_count>>]

\* C3 witness: three windows or more were fetched, the last one not full.
C3_Witness ==
    /\ fetch.pc = "done"
    /\ Len(fetch.windows) >= 3
    /\ Len(fetch.source) % fetch.max_result_count # 0
    /\ fetch.saved_batch = fetch.source

\* C17: once the count query has answered zero, _migrate_entries issues no
\* select, accumulates and saves no record, logs no error, and ends
\* through _save_entries on the empty list.
C17_ZeroCountFetchesNothing ==
    /\ [](((fetch.pc \notin {"count", "off", "escaped"}) /\ fetch.entry_count = 0) =>
             /\ fetch.pc \in {"pages", "done"}
             /\ fetch.windows = <<>>
             /\ fetch.entries = <<>>
             /\ fetch.saved_batch = <<>>
             /\ fetch.log = 0)
    /\ [][(fetch.pc = "pages" /\ fetch.entry_count = 0) => fetch'.pc = "done"]_vars

\* C17 witness: the entity has no record, the count query answered zero and
\* _migrate_entries ended without a select, with the code's window size.
C17_Witness ==
    /\ fetch.pc = "done"
    /\ fetch.source = <<>>
    /\ fetch.entry_count = 0
    /\ fetch.max_result_count = CodeMaxResultCount
    /\ fetch.windows = <<>>
    /\ fetch.log = 0

-----------------------------------------------------------------------------
(***************************************************************************)
(* Fiscal year extender: _create_fiscal_years.                             *)
(*                                                                         *)
(* Dates are records [y, m, d].  Fields of fy:                             *)
(*   line_dates                  the "date" of every line of gl_entries    *)
(*   smallest_ledger_entry_date  the minimum of the dates that are set     *)
(*   fiscal_years                the Fiscal Year records of the target     *)
(*   oldest_fiscal_year          the loop's current oldest fiscal year     *)
(*   first_start                 start date of the oldest fiscal year      *)
(*                               found when the step began                 *)
(*   created                     the fiscal years saved by the loop        *)
(*   log                         errors logged by the step                 *)
(***************************************************************************)

\* How many years before the existing fiscal year ledger dates may lie.
MaxYearsBack == 3

\* Numbers of ledger lines whose dates are drawn: none, one, two.
LineCounts == 0..2

MkDate(y, m, d) == [y |-> y, m |-> m, d |-> d]

IsLeapYear(y) == (y % 4 = 0 /\ y % 100 # 0) \/ y % 400 = 0

DaysInMonth(y, m) ==
    IF m = 2 THEN (IF IsLeapYear(y) THEN 29 ELSE 28)
    ELSE IF m \in {4, 6, 9, 11} THEN 30 ELSE 31

\* Dates order as their ISO strings and as datetime.date values do.
DateKey(dt) == dt.y * 10000 + dt.m * 100 + dt.d
DateLT(a, b) == DateKey(a) < DateKey(b)
DateLE(a, b) == DateKey(a) <= DateKey(b)

\* frappe.utils.data.add_years: the same month and day n years later, the
\* day clamped to the month's last day (29 February in a common year).
add_years(dt, n) ==
    MkDate(dt.y + n, dt.m, Min(dt.d, DaysInMonth(dt.y + n, dt.m)))

\* The day before dt, for the end date of a fiscal year from its successor's
\* start (used to build the existing fiscal years only).
DayBefore(dt) ==
    IF dt.d > 1 THEN MkDate(dt.y, dt.m, dt.d - 1)
    ELSE IF dt.m > 1 THEN MkDate(dt.y, dt.m - 1, DaysInMonth(dt.y, dt.m - 1))
    ELSE MkDate(dt.y - 1, 12, 31)

\* The year in which the existing fiscal year starts.
ExistingYears == {2020, 2021}

\* First days of a fiscal year: calendar year, 1 March (its end is the end of
\* February), 1 April, 1 July.
FiscalStartDays == {<<1, 1>>, <<3, 1>>, <<4, 1>>, <<7, 1>>}

\* The fiscal year starting at month/day md of year y: it ends the day
\* before the same day of the next year.
FiscalYearFrom(y, md) ==
    [year_start_date |-> MkDate(y, md[1], md[2]),
     year_end_date |-> DayBefore(MkDate(y + 1, md[1], md[2]))]

\* Days of the year on which ledger lines are dated.
LedgerDays == {<<1, 1>>, <<2, 28>>, <<2, 29>>, <<3, 1>>, <<6, 30>>, <<12, 31>>}

LedgerYears == { y \in 2000..2100 :
                   \E e \in ExistingYears : y <= e /\ e - y <= MaxYearsBack }

\* A ledger line's date: a date of the calendar, or none.
LedgerDates ==
    { MkDate(p[1], p[2][1], p[2][2]) :
          p \in { q \in LedgerYears \X LedgerDays :
                     q[2][2] <= DaysInMonth(q[1], q[2][1]) } }
        \cup {NoDate}

\* if entry["date"]: the date is set.
HasDate(dt) == dt # NoDate

\* The dates of a list that are set.
SetDates(dates) == { dates[i] : i \in { j \in DOMAIN dates : HasDate(dates[j]) } }

\* min(...) of a non-empty set of dates.
MinDate(ds) == CHOOSE a \in ds : \A b \in ds : DateLE(a, b)

\* frappe.get_all("Fiscal Year", order_by="year_start_date")[0].
OldestFiscalYear(fys) ==
    CHOOSE f \in { fys[i] : i \in DOMAIN fys } :
        \A i \in DOMAIN fys : DateLE(f.year_start_date, fys[i].year_start_date)

\* The loop test written with <=.
NeedsEarlierYear_orEqual(smallest, oldest) == DateLE(smallest, oldest.year_start_date)

\* while smallest_ledger_entry_date < oldest_fiscal_year.year_start_date
NeedsEarlierYear(smallest, oldest) == DateLT(smallest, oldest.year_start_date)

\* The loop body moving the start date only.
PrecedingFiscalYear_endKept(oldest) ==
    [year_start_date |-> add_years(oldest.year_start_date, -1),
     year_end_date |-> oldest.year_end_date]

\* The fiscal year the loop body builds from the oldest one.
PrecedingFiscalYear(oldest) ==
    [year_start_date |-> add_years(oldest.year_start_date, -1),
     year_end_date |-> add_years(oldest.year_end_date, -1)]

FYInit ==
    /\ run = RunIdle
    /\ save = SaveIdle
    /\ http = HttpIdle
    /\ fetch = FetchIdle
    /\ gl = GLIdle
    /\ \E y \in ExistingYears, md \in FiscalStartDays, two \in BOOLEAN,
          n \in LineCounts :
          \E dates \in [1..n -> LedgerDates] :
             fy = [FYIdle EXCEPT
                     !.pc = "start",
                     !.line_dates = dates,
                     !.fiscal_years =
                        IF two THEN <<FiscalYearFrom(y + 1, md), FiscalYearFrom(y, md)>>
                        ELSE <<FiscalYearFrom(y, md)>>,
                     !.first_start = MkDate(y, md[1], md[2])]

\* The minimum of the ledger dates and the oldest fiscal year.  min() of no
\* date raises; the exception is caught and logged, and the step ends.
FYStart ==
    /\ fy.pc = "start"
    /\ \/ /\ SetDates(fy.line_dates) # {}
          /\ fy' = [fy EXCEPT
                      !.smallest_ledger_entry_date = MinDate(SetDates(fy.line_dates)),
                      !.oldest_fiscal_year = OldestFiscalYear(fy.fiscal_years),
                      !.pc = "loop"]
       \/ /\ SetDates(fy.line_dates) = {}
          /\ fy' = [fy EXCEPT !.pc = "logged", !.log = @ + 1]
    /\ UNCHANGED notFY

\* One iteration of the loop: save the fiscal year one year earlier.
FYCreate ==
    /\ fy.pc = "loop"
    /\ NeedsEarlierYear(fy.smallest_ledger_entry_date, fy.oldest_fiscal_year)
    /\ LET new_fiscal_year == PrecedingFiscalYear(fy.oldest_fiscal_year) IN
          fy' = [fy EXCEPT !.fiscal_years = Append(@, new_fiscal_year),
                           !.created = Append(@, new_fiscal_year),
                           !.oldest_fiscal_year = new_fiscal_year]
    /\ UNCHANGED notFY

\* The loop test fails: frappe.db.commit().
FYDone ==
    /\ fy.pc = "loop"
    /\ ~NeedsEarlierYear(fy.smallest_ledger_entry_date, fy.oldest_fiscal_year)
    /\ fy' = [fy EXCEPT !.pc = "done"]
    /\ UNCHANGED notFY

FYNext == FYStart \/ FYCreate \/ FYDone

SpecFY == FYInit /\ [][FYNext]_vars

\* The loop runs on: a step that can be taken is taken.
SpecFYFair == FYInit /\ [][FYNext]_vars /\ WF_vars(FYNext)

\* The earliest start date among the fiscal years of the target.
EarliestStart == OldestFiscalYear(fy.fiscal_years).year_start_date

\* C10: _create_fiscal_years terminates; when it ends after the loop, the
\* earliest fiscal year starts on or before the earliest ledger date D, and
\* the loop took the least number of one-year steps: none when D >= S, and
\* otherwise every created year but the last still started after D.
C10_ExtendsUntilCovered ==
    /\ <>(fy.pc \in {"done", "logged"})
    /\ [](fy.pc = "done" =>
            /\ DateLE(EarliestStart, fy.smallest_ledger_entry_date)
            /\ (Len(fy.created) = 0) <=>
                   DateLE(fy.first_start, fy.smallest_ledger_entry_date)
            /\ \A i \in 1..Len(fy.created) :
                   /\ i < Len(fy.created) =>
                         DateLT(fy.smallest_ledger_entry_date,
                                fy.created[i].year_start_date)
                   /\ fy.created[i].year_start_date = add_years(fy.first_start, -i))

\* C10 witness: the earliest ledger date lay more than two years before the
\* existing fiscal year, and the loop ended having created three years.
C10_Witness ==
    /\ fy.pc = "done"
    /\ DateLT(fy.smallest_ledger_entry_date, fy.first_start)
    /\ Len(fy.created) = 3

\* The fiscal years the target held when the step began: the loop appends.
ExistingFiscalYears == SubSeq(fy.fiscal_years, 1, Len(fy.fiscal_years) - Len(fy.created))

\* The fiscal year that was the oldest when the i-th year was created.
PreviouslyOldest(i) ==
    IF i = 1 THEN OldestFiscalYear(ExistingFiscalYears) ELSE fy.created[i - 1]

\* dt lies one calendar year before prev: the same month and day of the
\* year before, 28 February for a 29 February.
OneYearBefore(dt, prev) ==
    /\ dt.y = prev.y - 1
    /\ dt.m = prev.m
    /\ dt.d = IF prev.m = 2 /\ prev.d = 29 /\ ~IsLeapYear(dt.y) THEN 28 ELSE prev.d

\* Two fiscal years share a day.
Overlap(a, b) ==
    /\ DateLE(a.year_start_date, b.year_end_date)
    /\ DateLE(b.year_start_date, a.year_end_date)

\* C11: every fiscal year created by _create_fiscal_years starts and ends
\* one calendar year before the previously oldest fiscal year, no two fiscal
\* years of the target overlap, and the fiscal years already there are kept
\* as they were: a step only appends to the list.
C11_CreatedYearsPrecedeWithoutOverlap ==
    /\ [](/\ \A i \in 1..Len(fy.created) :
               /\ OneYearBefore(fy.created[i].year_start_date,
                                PreviouslyOldest(i).year_start_date)
               /\ OneYearBefore(fy.created[i].year_end_date,
                                PreviouslyOldest(i).year_end_date)
           /\ \A j, k \in DOMAIN fy.fiscal_years :
                  j # k => ~Overlap(fy.fiscal_years[j], fy.fiscal_years[k]))
    /\ [][\A n \in DOMAIN fy.fiscal_years :
              /\ n \in DOMAIN fy'.fiscal_years
              /\ fy'.fiscal_years[n] = fy.fiscal_years[n]]_vars

\* C11 witness: three fiscal years were created before two existing ones,
\* one of them ending on 28 February of a leap year.
C11_Witness ==
    /\ fy.pc = "done"
    /\ Len(fy.created) = 3
    /\ Len(fy.fiscal_years) = 5
    /\ \E i \in 1..3 : /\ fy.created[i].year_end_date.m = 2
                        /\ fy.created[i].year_end_date.d = 28
                        /\ IsLeapYear(fy.created[i].year_end_date.y)

-----------------------------------------------------------------------------
(***************************************************************************)
(* General ledger reconstructor: _fetch_general_ledger and the recursive   *)
(* walk _get_gl_entries_from_section.                                      *)
(*                                                                         *)
(* A report is the list response.json()["Rows"]["Row"].  A Section row is  *)
(* [type, Header, Rows]; Header is the first ColData of the header, with   *)
(* `present` false when the row has no "Header" and `has_id` false when    *)
(* the column has no "id".  A Data row is [type, date, txn_type, id,       *)
(* credit, debit] and carries `row`, its place in the report in document   *)
(* order, which the code does not read: it names the row in the claims.    *)
(*                                                                         *)
(* Fields of gl:                                                           *)
(*   report          the rows of the report                                *)
(*   next_section    the top-level row the loop is at                      *)
(*   gl_entries      self.gl_entries, a dict in insertion order: a list of *)
(*                   [account, lines]                                      *)
(*   general_ledger  self.general_ledger, the entries in the order first   *)
(*                   met: a list of [type, id, date, lines]                *)
(*   log             errors logged by _fetch_general_ledger                *)
(***************************************************************************)

NoHeader == [present |-> FALSE, has_id |-> FALSE, id |-> 0, value |-> ""]
HeaderWithId(i, v) == [present |-> TRUE, has_id |-> TRUE, id |-> i, value |-> v]
HeaderByName(v) == [present |-> TRUE, has_id |-> FALSE, id |-> 0, value |-> v]

\* self.accounts, built by _preprocess_accounts: account name -> Id.
AccountsByName == [n \in {"Cash", "Sales"} |-> IF n = "Cash" THEN 1 ELSE 2]

\* Whether an Account with this quickbooks_id exists in the target, and the
\* name _get_account_name_by_id answers then ([0] of no match raises).
HasErpAccount(id) == id \in {1, 2}
ErpAccountName(id) == IF id = 1 THEN "Cash - QB" ELSE "Sales - QB"

\* Headers of a section.  Account 2 is shown as "Sales" or, in a company that
\* names an account so, as "Not Specified"; id 9 and name "Ghost" match no
\* account.
Headers ==
    {NoHeader,
     HeaderWithId(1, "Cash"), HeaderWithId(2, "Sales"),
     HeaderWithId(2, "Not Specified"), HeaderWithId(9, "Ghost"),
     HeaderByName("Cash"), HeaderByName("Sales"), HeaderByName("Not Specified"),
     HeaderByName(""), HeaderByName("Ghost")}

\* How the transactions of the rows repeat: one transaction, two ids of one
\* type, two types with one id.
TxnPatterns == {"one", "two_ids", "two_types"}

TxnOf(pattern, r) ==
    IF pattern = "one" THEN <<"Tax Payment", 7>>
    ELSE IF pattern = "two_ids" THEN <<"Tax Payment", IF r % 2 = 1 THEN 7 ELSE 8>>
    ELSE <<IF r % 2 = 1 THEN "Invoice" ELSE "Tax Payment", 7>>

\* Data row r: odd rows carry a credit, even rows a debit.
DataRow(pattern, r) ==
    [type |-> "Data", row |-> r, date |-> MkDate(2020, 1, (r % 10) + 1),
     txn_type |-> TxnOf(pattern, r)[1], id |-> TxnOf(pattern, r)[2],
     credit |-> IF r % 2 = 1 THEN r ELSE 0,
     debit |-> IF r % 2 = 1 THEN 0 ELSE r]

SectionRow(header, rows) == [type |-> "Section", Header |-> header, Rows |-> rows]

\* Rows of a top-level section: Data rows ("D") and nested sections ("S") of
\* one Data row each.
SectionShapes ==
    {<<"D">>, <<"S">>, <<"D", "S">>, <<"S", "D">>, <<"D", "S", "D">>}

\* The k-th top-level section: its rows are numbered 10k+1, 10k+2, ... in
\* document order.
TopSection(pattern, k, header, shape, nested_header) ==
    SectionRow(header,
        [i \in DOMAIN shape |->
            IF shape[i] = "D" THEN DataRow(pattern, 10 * k + i)
            ELSE SectionRow(nested_header, <<DataRow(pattern, 10 * k + i)>>)])

FirstSections(pattern) ==
    { TopSection(pattern, 1, h, sh, nh) :
        h \in Headers, sh \in SectionShapes, nh \in Headers }

SecondSections(pattern) ==
    { TopSection(pattern, 2, h, <<"D">>, NoHeader) :
        h \in {HeaderWithId(1, "Cash"), HeaderByName("Sales"),
                HeaderByName("Not Specified")} }

Reports ==
    UNION { { <<s1>> : s1 \in FirstSections(p) }
              \cup { <<s1, s2>> : s1 \in FirstSections(p), s2 \in SecondSections(p) }
            : p \in TxnPatterns }

\* A header that reads "Not Specified" keeps the account of the enclosing
\* section instead of ending the walk of its section.
HeaderAction_keepsAccount(h) ==
    IF ~h.present THEN "inherit"
    ELSE IF h.has_id THEN "by_id"
    ELSE IF h.value # "" /\ h.value # "Not Specified" THEN "by_name"
    ELSE "inherit"

\* What the walk does with a section's header: take the account of its id,
\* else of its display name, skip a section named "Not Specified", and
\* otherwise keep the account passed in.
HeaderAction(h) ==
    IF ~h.present THEN "inherit"
    ELSE IF h.has_id THEN "by_id"
    ELSE IF h.value # "" THEN
         (IF h.value = "Not Specified" THEN "skip" ELSE "by_name")
    ELSE "inherit"

\* Whether resolving the header's account raises (no such name in
\* self.accounts, or no Account of that quickbooks_id).
HeaderRaises(h) ==
    \/ HeaderAction(h) = "by_id" /\ ~HasErpAccount(h.id)
    \/ HeaderAction(h) = "by_name" /\ h.value \notin DOMAIN AccountsByName
    \/ HeaderAction(h) = "by_name" /\ h.value \in DOMAIN AccountsByName
           /\ ~HasErpAccount(AccountsByName[h.value])

\* The account passed in is dropped by a section whose header resolves none.
SectionAccount_noInherit(h, account) ==
    IF HeaderAction(h) = "by_id" THEN ErpAccountName(h.id)
    ELSE IF HeaderAction(h) = "by_name" THEN ErpAccountName(AccountsByName[h.value])
    ELSE "None"

\* The section's current account.
SectionAccount(h, account) ==
    IF HeaderAction(h) = "by_id" THEN ErpAccountName(h.id)
    ELSE IF HeaderAction(h) = "by_name" THEN ErpAccountName(AccountsByName[h.value])
    ELSE account

\* The ledger line of a Data row.
LedgerLine(account, data) ==
    [account |-> account, date |-> data.date, type |-> data.txn_type,
     id |-> data.id, credit |-> data.credit, debit |-> data.debit,
     row |-> data.row]

\* self.gl_entries[account] = entries: the list of an account that is met
\* again is replaced.
SetDefaultExtend_replaces(ge, account, lines) ==
    IF \E i \in DOMAIN ge : ge[i].account = account
    THEN [i \in DOMAIN ge |->
            IF ge[i].account = account
            THEN [ge[i] EXCEPT !.lines = lines] ELSE ge[i]]
    ELSE Append(ge, [account |-> account, lines |-> lines])

\* self.gl_entries.setdefault(account, []).extend(entries)
SetDefaultExtend(ge, account, lines) ==
    IF \E i \in DOMAIN ge : ge[i].account = account
    THEN [i \in DOMAIN ge |->
            IF ge[i].account = account
            THEN [ge[i] EXCEPT !.lines = @ \o lines] ELSE ge[i]]
    ELSE Append(ge, [account |-> account, lines |-> lines])

RECURSIVE _get_gl_entries_from_section(_, _, _)
RECURSIVE WalkRows(_, _, _, _, _)

\* The loop over section["Rows"]["Row"] from row i on: `entries` are the
\* lines of this section so far, ge is self.gl_entries.
WalkRows(rows, i, account, lines, ge) ==
    IF i > Len(rows) THEN [entries |-> lines, gl_entries |-> ge, raised |-> FALSE]
    ELSE IF rows[i].type = "Data"
    THEN WalkRows(rows, i + 1, account, Append(lines, LedgerLine(account, rows[i])), ge)
    ELSE LET sub == _get_gl_entries_from_section(rows[i], account, ge) IN
         IF sub.raised
         THEN [entries |-> lines, gl_entries |-> sub.gl_entries, raised |-> TRUE]
         ELSE WalkRows(rows, i + 1, account, lines, sub.gl_entries)

\* _get_gl_entries_from_section(section, account): self.gl_entries after the
\* call, and whether the call raised.
_get_gl_entries_from_section(section, account, ge) ==
    IF HeaderAction(section.Header) = "skip"
    THEN [gl_entries |-> ge, raised |-> FALSE]
    ELSE IF HeaderRaises(section.Header)
    THEN [gl_entries |-> ge, raised |-> TRUE]
    ELSE LET acc == SectionAccount(section.Header, account)
             w == WalkRows(section.Rows, 1, acc, <<>>, ge)
         IN IF w.raised
            THEN [gl_entries |-> w.gl_entries, raised |-> TRUE]
            ELSE [gl_entries |-> SetDefaultExtend(w.gl_entries, acc, w.entries),
                  raised |-> FALSE]

RECURSIVE FlattenLines(_, _)
\* for account in self.gl_entries.values(): for line in account
FlattenLines(ge, i) ==
    IF i > Len(ge) THEN <<>> ELSE ge[i].lines \o FlattenLines(ge, i + 1)

RECURSIVE GroupLines(_, _, _)
\* The grouping loop of _fetch_general_ledger from line i on.
GroupLines(lines, i, ledger) ==
    IF i > Len(lines) THEN ledger
    ELSE LET line == lines[i]
             known == \E k \in DOMAIN ledger :
                         ledger[k].type = line.type /\ ledger[k].id = line.id
         IN GroupLines(lines, i + 1,
               IF known
               THEN [k \in DOMAIN ledger |->
                       IF ledger[k].type = line.type /\ ledger[k].id = line.id
                       THEN [ledger[k] EXCEPT !.lines = Append(@, line)]
                       ELSE ledger[k]]
               ELSE Append(ledger, [type |-> line.type, id |-> line.id,
                                    date |-> line.date, lines |-> <<line>>]))

GLInit ==
    /\ run = RunIdle
    /\ save = SaveIdle
    /\ http = HttpIdle
    /\ fetch = FetchIdle
    /\ fy = FYIdle
    /\ \E r \in Reports : gl = [GLIdle EXCEPT !.pc = "fetch", !.report = r]

\* response = self._get(report); self.gl_entries = {}.  When the _get
\* raises, the handler's own use of `response` raises.
GLFetch ==
    /\ gl.pc = "fetch"
    /\ \/ gl' = [gl EXCEPT !.pc = "walk", !.next_section = 1, !.gl_entries = <<>>]
       \/ gl' = [gl EXCEPT !.pc = "escaped"]
    /\ UNCHANGED notGL

\* One iteration of the loop over the top-level rows.  An exception of the
\* walk is caught and logged by _fetch_general_ledger, which ends.
GLWalkSection ==
    /\ gl.pc = "walk"
    /\ gl.next_section <= Len(gl.report)
    /\ LET section == gl.report[gl.next_section]
           w == IF section.type = "Section"
                THEN _get_gl_entries_from_section(section, "None", gl.gl_entries)
                ELSE [gl_entries |-> gl.gl_entries, raised |-> FALSE]
       IN gl' = [gl EXCEPT !.gl_entries = w.gl_entries,
                           !.next_section = @ + 1,
                           !.pc = IF w.raised THEN "logged" ELSE @,
                           !.log = IF w.raised THEN @ + 1 ELSE @]
    /\ UNCHANGED notGL

\* The loop has ended: self.general_ledger is built from self.gl_entries.
GLGroup ==
    /\ gl.pc = "walk"
    /\ gl.next_section > Len(gl.report)
    /\ gl' = [gl EXCEPT
                !.general_ledger = GroupLines(FlattenLines(gl.gl_entries, 1), 1, <<>>),
                !.pc = "done"]
    /\ UNCHANGED notGL

GLNext == GLFetch \/ GLWalkSection \/ GLGroup

SpecGL == GLInit /\ [][GLNext]_vars

RECURSIVE DataRowsUnder(_)
\* The `row` of every Data row in a list of rows, nested sections included.
DataRowsUnder(rows) ==
    UNION { IF rows[i].type = "Data" THEN {rows[i].row}
            ELSE DataRowsUnder(rows[i].Rows) : i \in DOMAIN rows }

RECURSIVE RowsUnderSections(_, _)
\* The Data rows located under a section of `rows` (at any depth) whose
\* header is in hs.
RowsUnderSections(rows, hs) ==
    UNION { IF rows[i].type = "Data" THEN {}
            ELSE IF rows[i].Header \in hs THEN DataRowsUnder(rows[i].Rows)
            ELSE RowsUnderSections(rows[i].Rows, hs) : i \in DOMAIN rows }

\* The `row` of every line held by a list of [.., lines] records.
RowsOfLines(holders) ==
    UNION { { holders[k].lines[i].row : i \in DOMAIN holders[k].lines } :
            k \in DOMAIN holders }

\* The rows that became a line of gl_entries or of a general_ledger entry.
LedgerRows == RowsOfLines(gl.gl_entries) \cup RowsOfLines(gl.general_ledger)

C19_LinesInWalkOrder ==
    \A k \in DOMAIN gl.general_ledger :
       \A i, j \in DOMAIN gl.general_ledger[k].lines :
          i < j => gl.general_ledger[k].lines[i].row < gl.general_ledger[k].lines[j].row

\* A section the walk skips: its header has no account id and reads
\* "Not Specified".
Skipped(h) == h.present /\ ~h.has_id /\ h.value = "Not Specified"

RECURSIVE DataRowsWalked(_)
\* The Data rows of a list of rows that lie under no skipped section, each
\* as <<row, type, id>>.
DataRowsWalked(rows) ==
    UNION { IF rows[i].type = "Data"
            THEN { <<rows[i].row, rows[i].txn_type, rows[i].id>> }
            ELSE IF Skipped(rows[i].Header) THEN {}
            ELSE DataRowsWalked(rows[i].Rows) : i \in DOMAIN rows }

\* The places <<entry, line>> of the lines of general_ledger.
LedgerPlaces ==
    UNION { { <<k, i>> : i \in DOMAIN gl.general_ledger[k].lines } :
            k \in DOMAIN gl.general_ledger }

\* C20: when _fetch_general_ledger has built general_ledger, every Data row
\* under no skipped Section is the row of exactly one line of exactly one
\* entry, no line comes from another row, every line has the type and id of
\* its entry, and no two entries have the same type and id.
C20_EachRowInOneEntry ==
    gl.pc = "done" =>
       /\ \A d \in DataRowsWalked(gl.report) :
             Cardinality({ p \in LedgerPlaces :
                             gl.general_ledger[p[1]].lines[p[2]].row = d[1] }) = 1
       /\ \A p \in LedgerPlaces :
             LET entry == gl.general_ledger[p[1]]
                 line == entry.lines[p[2]]
             IN /\ <<line.row, line.type, line.id>> \in DataRowsWalked(gl.report)
                /\ line.type = entry.type
                /\ line.id = entry.id
       /\ \A k, n \in DOMAIN gl.general_ledger :
             (gl.general_ledger[k].type = gl.general_ledger[n].type
                /\ gl.general_ledger[k].id = gl.general_ledger[n].id) => k = n

\* C20 witness: a report of two sections of the same account, the first with
\* rows of its own and a nested section, whose rows belong to two
\* transactions, was regrouped into two entries holding four lines.
C20_Witness ==
    /\ gl.pc = "done"
    /\ Len(gl.report) = 2
    /\ Len(gl.gl_entries) = 1
    /\ Len(gl.general_ledger) = 2
    /\ Cardinality(LedgerPlaces) = 4
    /\ Cardinality(DataRowsWalked(gl.report)) = 4

\* A header names an account when it carries an account id or a display
\* name; the account it names is the Account of that id, or of the id the
\* name index gives for the display name.
NamesAccount(h) == h.present /\ (h.has_id \/ h.value # "")
AccountNamedBy(h) ==
    IF h.has_id THEN ErpAccountName(h.id)
    ELSE ErpAccountName(AccountsByName[h.value])

RECURSIVE NearestNamedAccount(_, _, _)
\* The account named by the innermost Section around Data row r that names
\* one, `account` when no Section between `rows` and the row does.
NearestNamedAccount(rows, r, account) ==
    IF \E i \in DOMAIN rows : rows[i].type = "Data" /\ rows[i].row = r
    THEN account
    ELSE LET i == CHOOSE i \in DOMAIN rows :
                     rows[i].type = "Section" /\ r \in DataRowsUnder(rows[i].Rows)
         IN NearestNamedAccount(rows[i].Rows, r,
               IF NamesAccount(rows[i].Header)
               THEN AccountNamedBy(rows[i].Header) ELSE account)

\* The lines of self.gl_entries, each with the account it is stored under.
StoredLines ==
    UNION { { [under |-> gl.gl_entries[k].account, line |-> gl.gl_entries[k].lines[i]] :
                i \in DOMAIN gl.gl_entries[k].lines } : k \in DOMAIN gl.gl_entries }

\* C21: every ledger line, in gl_entries and in general_ledger, carries the
\* account named by the nearest Section around its row that names one (by
\* its header's id when present, else by its display name through the name
\* index), None when no Section around it names one, and is stored under
\* that account: a Section without a header passes on the account of the
\* Section around it and a nested Section's account never reaches the rows
\* of its parent.
C21_LineAccountIsNearestNamed ==
    /\ \A s \in StoredLines :
          /\ s.line.account = NearestNamedAccount(gl.report, s.line.row, "None")
          /\ s.under = s.line.account
    /\ \A p \in LedgerPlaces :
          gl.general_ledger[p[1]].lines[p[2]].account =
             NearestNamedAccount(gl.report, gl.general_ledger[p[1]].lines[p[2]].row, "None")

\* C21 witness: the walk ended on a section named "Cash" by display name
\* only, with a row, a nested section of account id 2 and a row after it:
\* the three rows are lines of general_ledger, the nested one on the nested
\* section's account and both rows of the parent on the parent's.
C21_Witness ==
    /\ gl.pc = "done"
    /\ gl.report[1].Header = HeaderByName("Cash")
    /\ Len(gl.report[1].Rows) = 3
    /\ gl.report[1].Rows[2].type = "Section"
    /\ gl.report[1].Rows[2].Header = HeaderWithId(2, "Sales")
    /\ \E p, q, u \in LedgerPlaces :
          LET line(x) == gl.general_ledger[x[1]].lines[x[2]]
          IN /\ line(p).row = 11 /\ line(p).account = "Cash - QB"
             /\ line(q).row = 12 /\ line(q).account = "Sales - QB"
             /\ line(u).row = 13 /\ line(u).account = "Cash - QB"

\* C21 witness of inheritance: a nested section without a header under a
\* section of account id 1 gave a line on "Cash - QB".
C21_WitnessInherits ==
    /\ gl.pc = "done"
    /\ gl.report[1].Header = HeaderWithId(1, "Cash")
    /\ gl.report[1].Rows[1].type = "Section"
    /\ gl.report[1].Rows[1].Header = NoHeader
    /\ \E s \in StoredLines : s.line.row = 11 /\ s.line.account = "Cash - QB"

-----------------------------------------------------------------------------
(***************************************************************************)
(* _save_entries and the handlers of the entity types.  The target is the  *)
(* list `docs` of the documents of the company.  A quickbooks_id           *)
(* "<prefix> - <Id>" is the pair <<prefix, Id>>, a bare Id is <<"", Id>>.  *)
(* What the target's own validation does with a document (insert() or      *)
(* submit() raising) is not decided by this code: it is the attribute      *)
(* `target` of the source record the document is built from.               *)
(***************************************************************************)
MaxBatch == 2

\* frappe.db.exists({"doctype": .., "quickbooks_id": .., "company": ..})
Exists(docs, doctype, quickbooks_id) ==
    \E i \in DOMAIN docs :
        docs[i].doctype = doctype /\ docs[i].quickbooks_id = quickbooks_id

\* A handler works on the record `self` of what it reads and writes: the
\* documents `docs` of the target, the number `log` of logged errors, the
\* attributes of the migrator, and `escaped`, set when an exception leaves
\* the handler.  It returns, returns after _log_error, or lets an
\* exception out.
Returns(self) == self
_log_error(self) == [self EXCEPT !.log = @ + 1]
Raises(self) == [self EXCEPT !.escaped = TRUE]
\* The except clause names a local that was never bound: the
\* UnboundLocalError leaves the handler, nothing is logged.
UnboundLocalError(self) == Raises(self)

\* doc.insert(); doc.submit() inside a try whose except clause logs.
InsertAndSubmit(doc, target, self) ==
    IF target = "rejects_insert" THEN _log_error(self)
    ELSE IF target = "rejects_submit"
    THEN _log_error([self EXCEPT !.docs = Append(@, [doc EXCEPT !.docstatus = 0])])
    ELSE [self EXCEPT !.docs = Append(@, doc)]

\* frappe.db.get_value("Account", name, "account_type") == "Receivable"
IsReceivable(docs, name) ==
    \E i \in DOMAIN docs :
        /\ docs[i].doctype = "Account"
        /\ docs[i].name = name
        /\ docs[i].account_type = "Receivable"

\* {"account": line["account"], "cost_center": self.default_cost_center}
AccountLine(line) == [account |-> line.account, cost_center |-> "Main - QB"]

\* A posting of __save_ledger_entry_as_je that always posts a credit.
LedgerPosting_creditOnly(line) ==
    AccountLine(line) @@ [credit_in_account_currency |-> line.credit + line.debit]

\* The posting __save_ledger_entry_as_je builds from one ledger line.
LedgerPosting(line) ==
    IF line.credit # 0
    THEN AccountLine(line) @@ [credit_in_account_currency |-> line.credit]
    ELSE AccountLine(line) @@ [debit_in_account_currency |-> line.debit]

\* A posting of _save_invoice_as_journal_entry that tests credit with `if`
\* instead of `elif`.
InvoicePosting_bothSides(docs, invoice, line) ==
    LET debit == IF line.debit # 0
                 THEN AccountLine(line) @@ [debit_in_account_currency |-> line.debit]
                 ELSE AccountLine(line)
        amount == IF line.credit # 0
                  THEN debit @@ [credit_in_account_currency |-> line.credit]
                  ELSE debit
    IN IF IsReceivable(docs, line.account)
       THEN amount @@ [party_type |-> "Customer", party |-> invoice.CustomerRef]
       ELSE amount

\* The posting _save_invoice_as_journal_entry builds from one ledger line.
InvoicePosting(docs, invoice, line) ==
    LET amount == IF line.debit # 0
                  THEN AccountLine(line) @@ [debit_in_account_currency |-> line.debit]
                  ELSE IF line.credit # 0
                  THEN AccountLine(line) @@ [credit_in_account_currency |-> line.credit]
                  ELSE AccountLine(line)
    IN IF IsReceivable(docs, line.account)
       THEN amount @@ [party_type |-> "Customer", party |-> invoice.CustomerRef]
       ELSE amount

\* The Journal Entry document of __save_journal_entry.
JournalEntryDoc(quickbooks_id, accounts, posting_date) ==
    [doctype |-> "Journal Entry", quickbooks_id |-> quickbooks_id,
     posting_date |-> posting_date, accounts |-> accounts, docstatus |-> 1]

__save_journal_entry(quickbooks_id, accounts, posting_date, target, self) ==
    IF Exists(self.docs, "Journal Entry", quickbooks_id) THEN Returns(self)
    ELSE InsertAndSubmit(JournalEntryDoc(quickbooks_id, accounts, posting_date),
                         target, self)

__save_ledger_entry_as_je(ledger_entry, quickbooks_id, self) ==
    __save_journal_entry(quickbooks_id,
        [i \in DOMAIN ledger_entry.lines |-> LedgerPosting(ledger_entry.lines[i])],
        ledger_entry.date, ledger_entry.target, self)

\* "Tax Payment", "Sales Tax Payment" and "Purchase Tax Payment" all go to
\* _save_tax_payment.
GLPrefix(entity) ==
    IF entity \in {"Tax Payment", "Sales Tax Payment", "Purchase Tax Payment"}
    THEN "Tax Payment" ELSE entity

\* self.general_ledger["Invoice"][invoice["Id"]]
HasLedgerEntry(general_ledger, type, id) ==
    \E k \in DOMAIN general_ledger :
        general_ledger[k].type = type /\ general_ledger[k].id = id

LedgerEntry(general_ledger, type, id) ==
    general_ledger[CHOOSE k \in DOMAIN general_ledger :
        general_ledger[k].type = type /\ general_ledger[k].id = id]

_save_invoice_as_journal_entry(invoice, quickbooks_id, self) ==
    IF ~HasLedgerEntry(self.general_ledger, "Invoice", invoice.Id)
    THEN _log_error(self)
    ELSE LET lines == LedgerEntry(self.general_ledger, "Invoice", invoice.Id).lines
         IN IF /\ \E i \in DOMAIN lines : IsReceivable(self.docs, lines[i].account)
               /\ ~Exists(self.docs, "Customer", <<"", invoice.CustomerRef>>)
            THEN _log_error(self)
            ELSE __save_journal_entry(quickbooks_id,
                    [i \in DOMAIN lines |-> InvoicePosting(self.docs, invoice, lines[i])],
                    invoice.TxnDate, invoice.target, self)

\* _get_account_name_by_id: the name of the first Account with the id.
_get_account_name_by_id(docs, quickbooks_id) ==
    docs[CHOOSE i \in DOMAIN docs :
           /\ docs[i].doctype = "Account" /\ docs[i].quickbooks_id = quickbooks_id
           /\ \A j \in 1..(i - 1) :
                 ~(docs[j].doctype = "Account" /\ docs[j].quickbooks_id = quickbooks_id)].name

\* self.tax_rates, built by _preprocess_tax_rates: the TaxRate records of
\* QuickBooks by Id.
tax_rates == [id \in {1, 2} |-> [Id |-> id, RateValue |-> 5 * id]]

\* self.tax_codes, built by _preprocess_tax_codes: the TaxCode records of
\* QuickBooks by Id, each rate list by its TaxRateDetail.
tax_codes ==
    ("2" :> [SalesTaxRateList |->
                << [TaxTypeApplicable |-> "TaxOnAmount", TaxRateRef |-> 1] >>,
             PurchaseTaxRateList |-> <<>>])
    @@
    ("3" :> [SalesTaxRateList |->
                << [TaxTypeApplicable |-> "TaxOnTaxAmount", TaxRateRef |-> 1] >>,
             PurchaseTaxRateList |->
                << [TaxTypeApplicable |-> "TaxOnAmount", TaxRateRef |-> 2] >>])

\* The tax code of a line with the transaction's code never consulted.
TaxCodeOf_noFallback(TaxCodeRef, invoice) ==
    IF TaxCodeRef # "TAX" THEN TaxCodeRef ELSE "NON"

\* The tax code of a line: its TaxCodeRef value unless that is "TAX", then
\* TxnTaxDetail.TxnTaxCodeRef of the transaction when it has one ("None":
\* it has not), and "NON" otherwise.
TaxCodeOf(TaxCodeRef, invoice) ==
    IF TaxCodeRef # "TAX" THEN TaxCodeRef
    ELSE IF invoice.TxnTaxCodeRef # "None" THEN invoice.TxnTaxCodeRef
    ELSE "NON"

\* _get_item_taxes: for "NON" no item taxes; otherwise for every
\* TaxOnAmount detail of the two rate lists of the code, the RateValue of its
\* rate under the name of the rate's account.  self.tax_codes[tax_code] of
\* an unknown code raises, and so does the lookup of an account that the
\* target does not have.
_get_item_taxes(docs, tax_code) ==
    IF tax_code = "NON" THEN [item_taxes |-> {}, raised |-> FALSE]
    ELSE IF tax_code \notin DOMAIN tax_codes THEN [item_taxes |-> {}, raised |-> TRUE]
    ELSE LET details == tax_codes[tax_code].SalesTaxRateList
                           \o tax_codes[tax_code].PurchaseTaxRateList
             applicable == { details[k].TaxRateRef :
                               k \in { j \in DOMAIN details :
                                         details[j].TaxTypeApplicable = "TaxOnAmount" } }
         IN IF \E ref \in applicable : ~Exists(docs, "Account", <<"TaxRate", ref>>)
            THEN [item_taxes |-> {}, raised |-> TRUE]
            ELSE [item_taxes |->
                     { <<_get_account_name_by_id(docs, <<"TaxRate", ref>>),
                         tax_rates[ref].RateValue>> : ref \in applicable },
                  raised |-> FALSE]

RECURSIVE _get_si_items(_, _, _, _, _)
\* _get_si_items from line i on: one item per SalesItemLineDetail line, its
\* qty negated for a return; the item lookup [0] raises when no Item has
\* the line's ItemRef, and so does items[-1] of a DescriptionOnly line
\* that comes first.
_get_si_items(docs, invoice, i, is_return, items) ==
    IF i > Len(invoice.Line) THEN [items |-> items, raised |-> FALSE]
    ELSE IF invoice.Line[i].DetailType = "SalesItemLineDetail"
    THEN LET line == invoice.Line[i]
             taxes == _get_item_taxes(docs, TaxCodeOf(line.TaxCodeRef, invoice))
         IN IF ~Exists(docs, "Item", <<"", line.ItemRef>>) \/ taxes.raised
            THEN [items |-> items, raised |-> TRUE]
            ELSE _get_si_items(docs, invoice, i + 1, is_return,
                    Append(items, [item_code |-> line.ItemRef,
                                   qty |-> IF is_return THEN 0 - line.Qty ELSE line.Qty,
                                   margin_type |-> "",
                                   item_tax_rate |-> taxes.item_taxes]))
    ELSE IF invoice.Line[i].DetailType = "DescriptionOnly"
    THEN IF items = <<>> THEN [items |-> items, raised |-> TRUE]
         ELSE _get_si_items(docs, invoice, i + 1, is_return,
                 [items EXCEPT ![Len(items)].margin_type = "Percentage"])
    ELSE _get_si_items(docs, invoice, i + 1, is_return, items)

\* The Sales Invoice document of _save_sales_invoice.
SalesInvoiceDoc(invoice, quickbooks_id, items, is_return, is_pos) ==
    [doctype |-> "Sales Invoice", quickbooks_id |-> quickbooks_id,
     customer |-> invoice.CustomerRef, posting_date |-> invoice.TxnDate,
     items |-> items, is_return |-> is_return, is_pos |-> is_pos,
     debit_to |-> <<"Debtors", 0>>, docstatus |-> 1]

\* _save_sales_invoice.  invoice_dict is bound only after the customer, the
\* items and the payments were looked up: when one of these lookups raises,
\* the except clause raises in turn on `invoice_dict`.
_save_sales_invoice(invoice, quickbooks_id, is_return, is_pos, self) ==
    IF Exists(self.docs, "Sales Invoice", quickbooks_id) THEN Returns(self)
    ELSE IF ~Exists(self.docs, "Customer", <<"", invoice.CustomerRef>>)
    THEN UnboundLocalError(self)
    ELSE LET got == _get_si_items(self.docs, invoice, 1, is_return, <<>>)
         IN IF got.raised THEN UnboundLocalError(self)
            ELSE IF is_pos /\ ~Exists(self.docs, "Account", <<"", invoice.DepositToAccountRef>>)
            THEN UnboundLocalError(self)
            ELSE InsertAndSubmit(
                    SalesInvoiceDoc(invoice, quickbooks_id, got.items, is_return, is_pos),
                    invoice.target, self)

\* The routing test of _save_invoice with only the first linked
\* transaction looked at.
RoutedToJournalEntry_firstOnly(invoice) ==
    /\ invoice.LinkedTxn # <<>>
    /\ invoice.LinkedTxn[1] \in {"StatementCharge", "ReimburseCharge"}

\* any(linked["TxnType"] in ("StatementCharge", "ReimburseCharge") ...)
RoutedToJournalEntry(invoice) ==
    \E i \in DOMAIN invoice.LinkedTxn :
        invoice.LinkedTxn[i] \in {"StatementCharge", "ReimburseCharge"}

_save_invoice(invoice, self) ==
    IF RoutedToJournalEntry(invoice)
    THEN _save_invoice_as_journal_entry(invoice, <<"Invoice", invoice.Id>>, self)
    ELSE _save_sales_invoice(invoice, <<"Invoice", invoice.Id>>, FALSE, FALSE, self)

\* _save_credit_memo without is_return=True.
_save_credit_memo_notReturn(credit_memo, self) ==
    _save_sales_invoice(credit_memo, <<"Credit Memo", credit_memo.Id>>, FALSE, FALSE, self)

_save_credit_memo(credit_memo, self) ==
    _save_sales_invoice(credit_memo, <<"Credit Memo", credit_memo.Id>>, TRUE, FALSE, self)

_save_sales_receipt(sales_receipt, self) ==
    _save_sales_invoice(sales_receipt, <<"Sales Receipt", sales_receipt.Id>>, FALSE, TRUE, self)

_save_refund_receipt(refund_receipt, self) ==
    _save_sales_invoice(refund_receipt, <<"Refund Receipt", refund_receipt.Id>>, TRUE, TRUE, self)

GLEntities ==
    {"Advance Payment", "Tax Payment", "Sales Tax Payment", "Purchase Tax Payment",
     "Inventory Qty Adjust"}

SalesEntities == {"Invoice", "CreditMemo", "SalesReceipt", "RefundReceipt"}

RECURSIVE _get_unique_account_name(_, _, _)
\* "<name> - QB", or "<name> - <number> - QB" with the first number that is
\* free: the pair <<name, number>>.
_get_unique_account_name(docs, quickbooks_name, number) ==
    IF \E i \in DOMAIN docs :
          docs[i].doctype = "Account" /\ docs[i].name = <<quickbooks_name, number>>
    THEN _get_unique_account_name(docs, quickbooks_name, number + 1)
    ELSE <<quickbooks_name, number>>

\* mapping[account["AccountType"]]
mapping(account_type) ==
    CASE account_type \in {"Bank", "Accounts Receivable"} -> "Asset"
      [] account_type = "Accounts Payable" -> "Liability"
      [] account_type = "Expense" -> "Expense"
      [] account_type = "Income" -> "Income"
      [] account_type = "Equity" -> "Equity"

_get_account_type(account) ==
    IF account.AccountSubType = "UndepositedFunds" THEN "Cash"
    ELSE CASE account.AccountType = "Accounts Payable" -> "Payable"
           [] account.AccountType = "Accounts Receivable" -> "Receivable"
           [] account.AccountType = "Bank" -> "Bank"
           [] OTHER -> "None"

AccountDoc(quickbooks_id, name, root_type, account_type, parent_account, is_group) ==
    [doctype |-> "Account", quickbooks_id |-> quickbooks_id, name |-> name,
     root_type |-> root_type, account_type |-> account_type,
     parent_account |-> parent_account, is_group |-> is_group]

Roots == <<"Asset", "Equity", "Expense", "Liability", "Income">>

RECURSIVE _make_root_accounts(_, _)
\* The root group account "<root> - QB" of every root type, unless it exists.
_make_root_accounts(docs, i) ==
    IF i > Len(Roots) THEN docs
    ELSE _make_root_accounts(
            IF \E k \in DOMAIN docs :
                  docs[k].doctype = "Account" /\ docs[k].name = <<Roots[i], 0>>
            THEN docs
            ELSE Append(docs, AccountDoc(<<"None", 0>>, <<Roots[i], 0>>, Roots[i],
                                         "None", <<"None", 0>>, TRUE)),
            i + 1)

\* _preprocess_accounts: is_group for the accounts that are the parent of a
\* sub-account.
IsGroup(accounts, account) ==
    \E k \in DOMAIN accounts :
        accounts[k].SubAccount /\ accounts[k].ParentRef = account.Id

RECURSIVE SortedById(_)
\* sorted(accounts, key=lambda account: int(account["Id"]))
SortedById(accounts) ==
    IF accounts = <<>> THEN <<>>
    ELSE LET k == CHOOSE i \in DOMAIN accounts :
                     /\ \A j \in DOMAIN accounts : accounts[i].Id <= accounts[j].Id
                     /\ \A j \in 1..(i - 1) : accounts[j].Id # accounts[i].Id
         IN <<accounts[k]>> \o
            SortedById([j \in 1..(Len(accounts) - 1) |->
                          IF j < k THEN accounts[j] ELSE accounts[j + 1]])

_preprocess_accounts(accounts) ==
    SortedById([k \in DOMAIN accounts |->
                  [accounts[k] EXCEPT !.is_group = IsGroup(accounts, accounts[k])]])

\* Every account is put under the root group of its type.
ParentAccount_rootOnly(docs, account) == <<mapping(account.AccountType), 0>>

\* parent_account of _save_account: the group account of the ParentRef of a
\* sub-account, else the root group "<root type> - QB".
ParentAccount(docs, account) ==
    IF account.SubAccount
    THEN _get_account_name_by_id(docs, <<"Group", account.ParentRef>>)
    ELSE <<mapping(account.AccountType), 0>>

\* _save_account.  A group account is saved twice: as the group
\* "Group - <Id>" and as its leaf "<Id>".  The parent of a sub-account is
\* looked up by "Group - <ParentRef>"; the lookup raises when no such
\* account exists yet.
_save_account(account, self) ==
    IF Exists(self.docs, "Account", <<"", account.Id>>) THEN Returns(self)
    ELSE IF account.SubAccount /\ ~Exists(self.docs, "Account", <<"Group", account.ParentRef>>)
    THEN _log_error(self)
    ELSE IF account.target = "rejects_insert" THEN _log_error(self)
    ELSE LET account_id == IF account.is_group THEN <<"Group", account.Id>>
                           ELSE <<"", account.Id>>
             parent_account == ParentAccount(self.docs, account)
             docs1 == Append(self.docs,
                        AccountDoc(account_id,
                                   _get_unique_account_name(self.docs, account.Name, 0),
                                   mapping(account.AccountType), _get_account_type(account),
                                   parent_account, account.is_group))
             docs2 == IF account.is_group
                      THEN Append(docs1,
                             AccountDoc(<<"", account.Id>>,
                                        _get_unique_account_name(docs1, account.Name, 0),
                                        mapping(account.AccountType),
                                        _get_account_type(account),
                                        _get_account_name_by_id(docs1, account_id), FALSE))
                      ELSE docs1
         IN IF account.is_group /\ account.target = "rejects_leaf"
            THEN _log_error([self EXCEPT !.docs = docs1])
            ELSE [self EXCEPT
                    !.docs = docs2,
                    !.undeposited_funds_account =
                        IF account.AccountSubType = "UndepositedFunds"
                        THEN _get_account_name_by_id(docs2, <<"", account.Id>>) ELSE @]

\* _save_tax_rate: the account "<Name> - QB" under the Liability root; the
\* insert raises when the name is taken.
_save_tax_rate(tax_rate, self) ==
    IF Exists(self.docs, "Account", <<"TaxRate", tax_rate.Id>>) THEN Returns(self)
    ELSE IF \E i \in DOMAIN self.docs :
               self.docs[i].doctype = "Account" /\ self.docs[i].name = <<tax_rate.Name, 0>>
    THEN _log_error(self)
    ELSE [self EXCEPT !.docs = Append(@,
            AccountDoc(<<"TaxRate", tax_rate.Id>>, <<tax_rate.Name, 0>>, "Liability",
                       "None", <<"Liability", 0>>, FALSE))]

\* def _save_tax_code(self, tax_code): pass
_save_tax_code(tax_code, self) == Returns(self)

\* _save_customer, without the addresses.
_save_customer(customer, self) ==
    IF Exists(self.docs, "Customer", <<"", customer.Id>>) THEN Returns(self)
    ELSE IF customer.target = "rejects_insert" THEN _log_error(self)
    ELSE [self EXCEPT !.docs = Append(@,
            [doctype |-> "Customer", quickbooks_id |-> <<"", customer.Id>>])]

\* _save_item: only Service and Inventory items; ExpenseAccountRef 0 is an
\* item without the reference.
_save_item(item, self) ==
    IF Exists(self.docs, "Item", <<"", item.Id>>) THEN Returns(self)
    ELSE IF item.Type \notin {"Service", "Inventory"} THEN Returns(self)
    ELSE IF item.ExpenseAccountRef # 0
            /\ ~Exists(self.docs, "Account", <<"", item.ExpenseAccountRef>>)
    THEN _log_error(self)
    ELSE IF item.target = "rejects_insert" THEN _log_error(self)
    ELSE [self EXCEPT !.docs = Append(@,
            [doctype |-> "Item", quickbooks_id |-> <<"", item.Id>>,
             expense_account |->
                IF item.ExpenseAccountRef # 0
                THEN _get_account_name_by_id(self.docs, <<"", item.ExpenseAccountRef>>)
                ELSE <<"None", 0>>])]

\* _save_vendor, without the addresses.
_save_vendor(vendor, self) ==
    IF Exists(self.docs, "Supplier", <<"", vendor.Id>>) THEN Returns(self)
    ELSE IF vendor.target = "rejects_insert" THEN _log_error(self)
    ELSE [self EXCEPT !.docs = Append(@,
            [doctype |-> "Supplier", quickbooks_id |-> <<"", vendor.Id>>])]

\* _save_preference: self._get_account_name_by_id(self, id) passes one
\* argument too many; the TypeError is caught and logged.
_save_preference(preference, self) ==
    IF preference.AllowShipping THEN _log_error(self) ELSE Returns(self)

\* A posting on the account with a QuickBooks id.
DebitOf(docs, account_ref, amount) ==
    [account |-> _get_account_name_by_id(docs, <<"", account_ref>>),
     cost_center |-> "Main - QB", debit_in_account_currency |-> amount]

CreditOf(docs, account_ref, amount) ==
    [account |-> _get_account_name_by_id(docs, <<"", account_ref>>),
     cost_center |-> "Main - QB", credit_in_account_currency |-> amount]

\* _save_journal_entry.  _get_je_accounts runs outside any try: the lookup
\* of a line's account raises out of the handler.
_save_journal_entry(journal_entry, self) ==
    IF \E i \in DOMAIN journal_entry.Line :
          ~Exists(self.docs, "Account", <<"", journal_entry.Line[i].AccountRef>>)
    THEN Raises(self)
    ELSE __save_journal_entry(<<"Journal Entry", journal_entry.Id>>,
            [i \in DOMAIN journal_entry.Line |->
                IF journal_entry.Line[i].PostingType = "Credit"
                THEN CreditOf(self.docs, journal_entry.Line[i].AccountRef,
                              journal_entry.Line[i].Amount)
                ELSE DebitOf(self.docs, journal_entry.Line[i].AccountRef,
                             journal_entry.Line[i].Amount)],
            journal_entry.TxnDate, journal_entry.target, self)

\* if purchase.get("Credit"): every posting changes side.
SwapSides(posting) ==
    IF "debit_in_account_currency" \in DOMAIN posting
    THEN [account |-> posting.account, cost_center |-> posting.cost_center,
          credit_in_account_currency |-> posting.debit_in_account_currency]
    ELSE [account |-> posting.account, cost_center |-> posting.cost_center,
          debit_in_account_currency |-> posting.credit_in_account_currency]

\* _save_purchase, of account-based lines and without the tax lines.  `accounts` is bound by a list
\* display that looks up the bank account: when that lookup raises, the
\* except clause raises in turn on `accounts`.
_save_purchase(purchase, self) ==
    IF ~Exists(self.docs, "Account", <<"", purchase.AccountRef>>)
    THEN UnboundLocalError(self)
    ELSE IF \E i \in DOMAIN purchase.Line :
               ~Exists(self.docs, "Account", <<"", purchase.Line[i].AccountRef>>)
    THEN _log_error(self)
    ELSE LET accounts ==
                 <<CreditOf(self.docs, purchase.AccountRef, purchase.TotalAmt)>> \o
                 [i \in DOMAIN purchase.Line |->
                    DebitOf(self.docs, purchase.Line[i].AccountRef, purchase.Line[i].Amount)]
         IN __save_journal_entry(<<"Purchase", purchase.Id>>,
               IF purchase.Credit
               THEN [i \in DOMAIN accounts |-> SwapSides(accounts[i])] ELSE accounts,
               purchase.TxnDate, purchase.target, self)

\* _save_deposit, without the cash back.  A line with a LinkedTxn is
\* credited to self.undeposited_funds_account.
_save_deposit(deposit, self) ==
    IF ~Exists(self.docs, "Account", <<"", deposit.DepositToAccountRef>>)
    THEN UnboundLocalError(self)
    ELSE IF \E i \in DOMAIN deposit.Line :
               IF deposit.Line[i].LinkedTxn
               THEN self.undeposited_funds_account = <<"None", 0>>
               ELSE ~Exists(self.docs, "Account", <<"", deposit.Line[i].AccountRef>>)
    THEN _log_error(self)
    ELSE __save_journal_entry(<<"Deposit", deposit.Id>>,
            <<DebitOf(self.docs, deposit.DepositToAccountRef, deposit.TotalAmt)>> \o
            [i \in DOMAIN deposit.Line |->
               IF deposit.Line[i].LinkedTxn
               THEN [account |-> self.undeposited_funds_account,
                     cost_center |-> "Main - QB",
                     credit_in_account_currency |-> deposit.Line[i].Amount]
               ELSE CreditOf(self.docs, deposit.Line[i].AccountRef, deposit.Line[i].Amount)],
            deposit.TxnDate, deposit.target, self)

RECURSIVE _get_pi_items(_, _, _, _, _)
\* _get_pi_items from line i on.  After every line, of whatever DetailType,
\* a return negates the qty of the last item built so far.
_get_pi_items(docs, purchase_invoice, i, is_return, items) ==
    IF i > Len(purchase_invoice.Line) THEN [items |-> items, raised |-> FALSE]
    ELSE LET line == purchase_invoice.Line[i]
             expense == line.DetailType \in {"ItemBasedExpenseLineDetail",
                                             "AccountBasedExpenseLineDetail"}
             taxes == IF expense
                      THEN _get_item_taxes(docs, TaxCodeOf(line.TaxCodeRef, purchase_invoice))
                      ELSE [item_taxes |-> {}, raised |-> FALSE]
             missing ==
                \/ /\ line.DetailType = "ItemBasedExpenseLineDetail"
                   /\ ~Exists(docs, "Item", <<"", line.ItemRef>>)
                \/ /\ line.DetailType = "AccountBasedExpenseLineDetail"
                   /\ ~Exists(docs, "Account", <<"", line.AccountRef>>)
                \/ taxes.raised
             built ==
                IF line.DetailType = "ItemBasedExpenseLineDetail"
                THEN Append(items, [item_code |-> line.ItemRef, qty |-> line.Qty,
                                    item_tax_rate |-> taxes.item_taxes])
                ELSE IF line.DetailType = "AccountBasedExpenseLineDetail"
                THEN Append(items, [item_code |-> 0, qty |-> 1,
                                    item_tax_rate |-> taxes.item_taxes])
                ELSE items
         IN IF missing \/ (is_return /\ built = <<>>)
            THEN [items |-> items, raised |-> TRUE]
            ELSE _get_pi_items(docs, purchase_invoice, i + 1, is_return,
                    IF is_return
                    THEN [built EXCEPT ![Len(built)].qty = 0 - @]
                    ELSE built)

\* __save_purchase_invoice.  As in _save_sales_invoice, a lookup that raises
\* before invoice_dict is bound makes the except clause raise.
__save_purchase_invoice(invoice, quickbooks_id, is_return, self) ==
    IF Exists(self.docs, "Purchase Invoice", quickbooks_id) THEN Returns(self)
    ELSE IF ~Exists(self.docs, "Account", <<"", invoice.APAccountRef>>)
    THEN UnboundLocalError(self)
    ELSE IF ~Exists(self.docs, "Supplier", <<"", invoice.VendorRef>>)
    THEN UnboundLocalError(self)
    ELSE LET got == _get_pi_items(self.docs, invoice, 1, is_return, <<>>)
         IN IF got.raised THEN UnboundLocalError(self)
            ELSE InsertAndSubmit(
                    [doctype |-> "Purchase Invoice", quickbooks_id |-> quickbooks_id,
                     supplier |-> invoice.VendorRef,
                     credit_to |-> _get_account_name_by_id(self.docs, <<"", invoice.APAccountRef>>),
                     posting_date |-> invoice.TxnDate, items |-> got.items,
                     is_return |-> is_return, docstatus |-> 1],
                    invoice.target, self)

_save_bill(bill, self) ==
    __save_purchase_invoice(bill, <<"Bill", bill.Id>>, FALSE, self)

_save_vendor_credit(vendor_credit, self) ==
    __save_purchase_invoice(vendor_credit, <<"Vendor Credit", vendor_credit.Id>>, TRUE, self)

\* The Journal Entry an Invoice was saved as.
InvoiceAsJournalEntry(docs, quickbooks_id) ==
    docs[CHOOSE i \in DOMAIN docs :
           docs[i].doctype = "Journal Entry" /\ docs[i].quickbooks_id = quickbooks_id]

\* list(filter(lambda acc: acc.party_type == "Customer", journal_entry.accounts))
CustomerLines(journal_entry) ==
    { k \in DOMAIN journal_entry.accounts :
        /\ "party_type" \in DOMAIN journal_entry.accounts[k]
        /\ journal_entry.accounts[k].party_type = "Customer" }

RECURSIVE PaymentAccounts(_, _, _, _)
\* The loop of _save_payment over payment["Line"] from line i on: a credit
\* for the Sales Invoice and a credit for the Journal Entry the linked
\* Invoice was saved as.  [0] of no customer line raises.
PaymentAccounts(docs, lines, i, accounts) ==
    IF i > Len(lines) THEN [accounts |-> accounts, raised |-> FALSE]
    ELSE IF lines[i].TxnType # "Invoice"
    THEN PaymentAccounts(docs, lines, i + 1, accounts)
    ELSE LET key == <<"Invoice", lines[i].TxnId>>
             credit(account, reference_type) ==
                 [party_type |-> "Customer", reference_type |-> reference_type,
                  reference_name |-> key, account |-> account,
                  credit_in_account_currency |-> lines[i].Amount,
                  cost_center |-> "Main - QB"]
             with_si == IF Exists(docs, "Sales Invoice", key)
                        THEN Append(accounts, credit(<<"Debtors", 0>>, "Sales Invoice"))
                        ELSE accounts
         IN IF ~Exists(docs, "Journal Entry", key)
            THEN PaymentAccounts(docs, lines, i + 1, with_si)
            ELSE LET je == InvoiceAsJournalEntry(docs, key)
                 IN IF CustomerLines(je) = {}
                    THEN [accounts |-> with_si, raised |-> TRUE]
                    ELSE PaymentAccounts(docs, lines, i + 1,
                            Append(with_si,
                                credit(je.accounts[CHOOSE k \in CustomerLines(je) :
                                          \A j \in CustomerLines(je) : k <= j].account,
                                       "Journal Entry")))

\* _save_payment.  DepositToAccountRef 0 is a payment without the reference,
\* which is not recorded.
_save_payment(payment, self) ==
    IF payment.DepositToAccountRef = 0 THEN Returns(self)
    ELSE LET got == PaymentAccounts(self.docs, payment.Line, 1, <<>>)
         IN IF got.raised THEN _log_error(self)
            ELSE IF ~Exists(self.docs, "Account", <<"", payment.DepositToAccountRef>>)
            THEN _log_error(self)
            ELSE __save_journal_entry(<<"Payment", payment.Id>>,
                    Append(got.accounts,
                           DebitOf(self.docs, payment.DepositToAccountRef, payment.TotalAmt)),
                    payment.TxnDate, payment.target, self)

RECURSIVE BillPaymentAccounts(_, _, _, _)
\* The loop of _save_bill_payment over bill_payment["Line"] from line i on.
BillPaymentAccounts(docs, lines, i, accounts) ==
    IF i > Len(lines) THEN accounts
    ELSE BillPaymentAccounts(docs, lines, i + 1,
            IF /\ lines[i].TxnType = "Bill"
               /\ Exists(docs, "Purchase Invoice", <<"Bill", lines[i].TxnId>>)
            THEN Append(accounts,
                    [party_type |-> "Supplier", reference_type |-> "Purchase Invoice",
                     reference_name |-> <<"Bill", lines[i].TxnId>>,
                     account |-> <<"Creditors", 0>>,
                     debit_in_account_currency |-> lines[i].Amount,
                     cost_center |-> "Main - QB"])
            ELSE accounts)

\* _save_bill_payment.  bank_account_id is bound for the pay types Check
\* and CreditCard only; its use raises for another pay type, inside the try.
_save_bill_payment(bill_payment, self) ==
    IF bill_payment.PayType \notin {"Check", "CreditCard"} THEN _log_error(self)
    ELSE IF ~Exists(self.docs, "Account", <<"", bill_payment.BankAccountRef>>)
    THEN _log_error(self)
    ELSE __save_journal_entry(<<"BillPayment", bill_payment.Id>>,
            Append(BillPaymentAccounts(self.docs, bill_payment.Line, 1, <<>>),
                   CreditOf(self.docs, bill_payment.BankAccountRef, bill_payment.TotalAmt)),
            bill_payment.TxnDate, bill_payment.target, self)

\* entity_method_map[entity](entry)
entity_method_map(entity, entry, self) ==
    CASE entity = "Account" -> _save_account(entry, self)
      [] entity = "TaxRate" -> _save_tax_rate(entry, self)
      [] entity = "TaxCode" -> _save_tax_code(entry, self)
      [] entity = "Preferences" -> _save_preference(entry, self)
      [] entity = "Customer" -> _save_customer(entry, self)
      [] entity = "Item" -> _save_item(entry, self)
      [] entity = "Vendor" -> _save_vendor(entry, self)
      [] entity = "Invoice" -> _save_invoice(entry, self)
      [] entity = "CreditMemo" -> _save_credit_memo(entry, self)
      [] entity = "SalesReceipt" -> _save_sales_receipt(entry, self)
      [] entity = "RefundReceipt" -> _save_refund_receipt(entry, self)
      [] entity = "JournalEntry" -> _save_journal_entry(entry, self)
      [] entity = "Bill" -> _save_bill(entry, self)
      [] entity = "VendorCredit" -> _save_vendor_credit(entry, self)
      [] entity = "Payment" -> _save_payment(entry, self)
      [] entity = "BillPayment" -> _save_bill_payment(entry, self)
      [] entity = "Purchase" -> _save_purchase(entry, self)
      [] entity = "Deposit" -> _save_deposit(entry, self)
      [] entity \in GLEntities ->
            __save_ledger_entry_as_je(entry, <<GLPrefix(entity), entry.id>>, self)

\* The target before a batch of transactions is saved: the accounts, the
\* customer and the item that the earlier steps of the run created.
SeedDocs ==
    << [doctype |-> "Account", quickbooks_id |-> <<"", 1>>, name |-> <<"Debtors", 0>>,
        account_type |-> "Receivable", is_group |-> FALSE, parent_account |-> <<"Asset", 0>>],
       [doctype |-> "Account", quickbooks_id |-> <<"", 2>>, name |-> <<"Sales", 0>>,
        account_type |-> "None", is_group |-> FALSE, parent_account |-> <<"Income", 0>>],
       [doctype |-> "Customer", quickbooks_id |-> <<"", 1>>],
       [doctype |-> "Item", quickbooks_id |-> <<"", 1>>] >>

\* invoice["LinkedTxn"], each linked transaction by its TxnType.
LinkedTxnLists ==
    {<<>>, <<"Payment">>, <<"StatementCharge">>, <<"Payment", "ReimburseCharge">>}

\* What is wrong with a source record, if anything.
Problems == {"none", "no_customer", "no_item", "rejected"}

\* An Invoice, CreditMemo, SalesReceipt or RefundReceipt of QuickBooks:
\* one item line and the subtotal line.
SalesRecord(id, linked, problem) ==
    [Id |-> id,
     CustomerRef |-> IF problem = "no_customer" THEN 2 ELSE 1,
     LinkedTxn |-> linked,
     TxnTaxCodeRef |-> "None",
     Line |-> << [DetailType |-> "SalesItemLineDetail",
                  ItemRef |-> IF problem = "no_item" THEN 9 ELSE 1, Qty |-> 2,
                  TaxCodeRef |-> "NON"],
                 [DetailType |-> "SubTotalLineDetail", ItemRef |-> 0, Qty |-> 0,
                  TaxCodeRef |-> "NON"] >>,
     TxnDate |-> MkDate(2020, 1, id),
     DepositToAccountRef |-> 1,
     target |-> IF problem = "rejected" THEN "rejects_insert" ELSE "accepts"]

\* credit and debit of the lines of one ledger entry.
Amounts == 0..2
LineLengths == 1..2
AmountSeqs ==
    UNION { [1..n -> [credit : Amounts, debit : Amounts]] : n \in LineLengths }

\* A general_ledger entry of the given type and id: its first line is on the
\* receivable account, the others on the income account.
LedgerEntryOf(type, id, amounts, target) ==
    [type |-> type, id |-> id, date |-> MkDate(2020, 1, id),
     lines |-> [k \in DOMAIN amounts |->
                 [account |-> IF k = 1 THEN <<"Debtors", 0>> ELSE <<"Sales", 0>>,
                  date |-> MkDate(2020, 1, id), type |-> type, id |-> id,
                  credit |-> amounts[k].credit, debit |-> amounts[k].debit]],
     target |-> target]

BalancedAmounts == << [credit |-> 0, debit |-> 2], [credit |-> 2, debit |-> 0] >>

SaveStart(entity, batch, general_ledger) ==
    [SaveIdle EXCEPT !.pc = "loop", !.entity = entity, !.batch = batch, !.index = 1,
                     !.docs = SeedDocs, !.general_ledger = general_ledger]

\* Batches of sales transactions; for Invoice, with and without their
\* general_ledger entries.
SalesInputs ==
    { SaveStart(entity,
                [k \in 1..n |-> SalesRecord(k, f[k][1], f[k][2])],
                IF with_ledger
                THEN [k \in 1..n |-> LedgerEntryOf("Invoice", k, BalancedAmounts, "accepts")]
                ELSE <<>>) :
        <<entity, n, f, with_ledger>> \in
            { x \in UNION { SalesEntities \X {n} \X [1..n -> LinkedTxnLists \X Problems] \X BOOLEAN :
                            n \in 1..MaxBatch } :
                x[1] # "Invoice" =>
                    (~x[4] /\ \A k \in 1..x[2] : x[3][k][1] = <<>>) } }

\* One Invoice linked to a charge, with any lines in its general_ledger entry.
ChargeInvoiceInputs ==
    { SaveStart("Invoice",
                << SalesRecord(1, <<"StatementCharge">>, problem) >>,
                << LedgerEntryOf("Invoice", 1, amounts, "accepts") >>) :
        <<problem, amounts>> \in {"none", "no_customer", "rejected"} \X AmountSeqs }

\* self.general_ledger[entity].values() for a GL-synthesized entity type.
LedgerInputs ==
    { SaveStart(entity,
                [k \in 1..n |-> LedgerEntryOf(entity, k, amounts, target)],
                [k \in 1..n |-> LedgerEntryOf(entity, k, amounts, target)]) :
        <<entity, n, amounts, target>> \in
            GLEntities \X (1..MaxBatch) \X AmountSeqs \X {"accepts", "rejects_insert"} }

SaveInputs == SalesInputs \cup ChargeInvoiceInputs \cup LedgerInputs

SaveInit ==
    /\ run = RunIdle
    /\ http = HttpIdle
    /\ fetch = FetchIdle
    /\ fy = FYIdle
    /\ gl = GLIdle
    /\ save \in SaveInputs

\* One iteration of the loop of _save_entries: the progress event, then the
\* handler of the entry.  An exception that leaves the handler leaves the
\* loop and _save_entries.
SaveEntry ==
    /\ save.pc = "loop"
    /\ save.index <= Len(save.batch)
    /\ LET r == entity_method_map(save.entity, save.batch[save.index], save)
       IN save' = [r EXCEPT
                    !.published = Append(@, [count |-> save.index,
                                             total |-> Len(save.batch)]),
                    !.index = IF r.escaped THEN @ ELSE @ + 1,
                    !.pc = IF r.escaped THEN "escaped" ELSE "loop"]
    /\ UNCHANGED notSave

\* frappe.db.commit() after the last entry.
SaveCommit ==
    /\ save.pc = "loop"
    /\ save.index > Len(save.batch)
    /\ save' = [save EXCEPT !.pc = "done"]
    /\ UNCHANGED notSave

SaveNext == SaveEntry \/ SaveCommit

SpecSave == SaveInit /\ [][SaveNext]_vars

\* The Sales Invoices of the target, and the source record of the batch each
\* was made from (the records of a batch have the Ids 1, 2, ..).
SalesInvoices == { i \in DOMAIN save.docs : save.docs[i].doctype = "Sales Invoice" }
SourceRecordOf(doc) == save.batch[doc.quickbooks_id[2]]
SourceItemLines(record) ==
    SelectSeq(record.Line, LAMBDA l : l.DetailType = "SalesItemLineDetail")

\* C14: the item lines of a Sales Invoice are the item lines of its source
\* record in order; made from a CreditMemo or RefundReceipt it is a return
\* and every line has the negated source quantity, made from an Invoice or
\* SalesReceipt it is no return and every line has the source quantity.
C14_ReturnNegatesQuantities ==
    \A i \in SalesInvoices :
       LET doc == save.docs[i]
           lines == SourceItemLines(SourceRecordOf(doc))
           return == doc.quickbooks_id[1] \in {"Credit Memo", "Refund Receipt"}
       IN /\ doc.is_return = return
          /\ Len(doc.items) = Len(lines)
          /\ \A k \in DOMAIN lines :
                doc.items[k].qty = IF return THEN 0 - lines[k].Qty ELSE lines[k].Qty

\* C14 witness: a batch of two CreditMemos was saved as two return Sales
\* Invoices, each with a line of quantity -2 from a source quantity of 2.
C14_Witness ==
    /\ save.entity = "CreditMemo"
    /\ save.pc = "done"
    /\ Cardinality(SalesInvoices) = 2
    /\ \A i \in SalesInvoices :
          /\ save.docs[i].quickbooks_id[1] = "Credit Memo"
          /\ save.docs[i].items[1].qty = 0 - 2
          /\ SourceItemLines(SourceRecordOf(save.docs[i]))[1].Qty = 2

(***************************************************************************)
(* The item lines of sales and purchase transactions: _get_si_items,      *)
(* _get_pi_items and _get_item_taxes, run by _save_entries on one record   *)
(* whose lines and tax codes vary.                                         *)
(***************************************************************************)
\* TaxCodeRef values of a line: "TAX", "NON", or the Id of a TaxCode ("9" is
\* the Id of none).
LineTaxCodes == {"TAX", "NON", "2", "3", "9"}

\* TxnTaxDetail.TxnTaxCodeRef of a transaction; "None": it has none.
TxnTaxCodes == {"None", "2", "3"}

\* The target after the accounts, tax rates, customers, items and vendors
\* were migrated.
ItemSeedDocs ==
    SeedDocs \o
    << AccountDoc(<<"", 4>>, <<"Creditors", 0>>, "Liability", "Payable",
                  <<"Liability", 0>>, FALSE),
       AccountDoc(<<"TaxRate", 1>>, <<"VAT", 0>>, "Liability", "None",
                  <<"Liability", 0>>, FALSE),
       AccountDoc(<<"TaxRate", 2>>, <<"Input VAT", 0>>, "Liability", "None",
                  <<"Liability", 0>>, FALSE),
       [doctype |-> "Supplier", quickbooks_id |-> <<"", 1>>] >>

\* A sales transaction with two item lines of the given tax codes.
TaxedSale(txn_code, codes) ==
    [SalesRecord(1, <<>>, "none") EXCEPT
       !.TxnTaxCodeRef = txn_code,
       !.Line = [k \in 1..2 |->
                   [DetailType |-> "SalesItemLineDetail", ItemRef |-> 1, Qty |-> 2,
                    TaxCodeRef |-> codes[k]]]]

\* A Bill or VendorCredit with two expense lines of the given kinds and tax
\* codes.
TaxedPurchase(txn_code, kinds, codes) ==
    [Id |-> 1, APAccountRef |-> 4, VendorRef |-> 1, TxnDate |-> MkDate(2020, 2, 4),
     target |-> "accepts", TxnTaxCodeRef |-> txn_code,
     Line |-> [k \in 1..2 |->
                 [DetailType |-> kinds[k], ItemRef |-> 1, AccountRef |-> 2, Qty |-> 2,
                  TaxCodeRef |-> codes[k]]]]

\* DetailType of the lines of a Bill or VendorCredit: the two that make an
\* item, and one that makes none.
PurchaseDetailTypes ==
    {"ItemBasedExpenseLineDetail", "AccountBasedExpenseLineDetail", "DescriptionOnly"}

ItemInputs ==
    { [SaveStart(x[1], << TaxedSale(x[2], x[3]) >>, <<>>) EXCEPT !.docs = ItemSeedDocs] :
        x \in {"Invoice", "RefundReceipt"} \X TxnTaxCodes \X [1..2 -> LineTaxCodes] }
    \cup
    { [SaveStart(x[1], << TaxedPurchase(x[2], x[3], x[4]) >>, <<>>)
          EXCEPT !.docs = ItemSeedDocs] :
        x \in {"Bill", "VendorCredit"} \X TxnTaxCodes
               \X [1..2 -> {"ItemBasedExpenseLineDetail", "AccountBasedExpenseLineDetail"}]
               \X [1..2 -> LineTaxCodes] }
    \cup
    { [SaveStart(x[1], << TaxedPurchase("None", x[2], [k \in 1..2 |-> "NON"]) >>, <<>>)
          EXCEPT !.docs = ItemSeedDocs] :
        x \in {"Bill", "VendorCredit"} \X [1..2 -> PurchaseDetailTypes] }

ItemsInit ==
    /\ run = RunIdle
    /\ http = HttpIdle
    /\ fetch = FetchIdle
    /\ fy = FYIdle
    /\ gl = GLIdle
    /\ save \in ItemInputs

SpecItems == ItemsInit /\ [][SaveNext]_vars

\* The documents with item lines, and the lines of a source record that
\* make an item.
ItemDocs ==
    { i \in DOMAIN save.docs :
        save.docs[i].doctype \in {"Sales Invoice", "Purchase Invoice"} }
TaxedLines(record) ==
    SelectSeq(record.Line,
              LAMBDA l : l.DetailType \in {"SalesItemLineDetail",
                                           "ItemBasedExpenseLineDetail",
                                           "AccountBasedExpenseLineDetail"})

\* The item taxes of a tax code that is the Id of a TaxCode.
ItemTaxesOfCode(code) == _get_item_taxes(save.docs, code).item_taxes

SourceQty(line) ==
    IF line.DetailType = "AccountBasedExpenseLineDetail" THEN 1 ELSE line.Qty

\* C28: every item of the return Purchase Invoice of a VendorCredit has the
\* quantity of its source line negated once, whatever the DetailType of the
\* lines of the VendorCredit and their order.
C28_VendorCreditNegatesOnce ==
    \A i \in ItemDocs :
       (save.entity = "VendorCredit" /\ save.docs[i].doctype = "Purchase Invoice") =>
          LET lines == TaxedLines(SourceRecordOf(save.docs[i]))
          IN /\ Len(save.docs[i].items) = Len(lines)
             /\ \A k \in DOMAIN lines :
                   save.docs[i].items[k].qty = 0 - SourceQty(lines[k])

RECURSIVE SumOf(_, _)
\* The sum of field f over the records of a list that have the field.
SumOf(list, f) ==
    IF list = <<>> THEN 0
    ELSE (IF f \in DOMAIN Head(list) THEN Head(list)[f] ELSE 0) + SumOf(Tail(list), f)

\* The ledger lines a Journal Entry of the target was synthesized from.
SourceLinesOf(doc) ==
    { save.batch[k].lines : k \in { j \in DOMAIN save.batch :
          /\ save.entity \in GLEntities
          /\ doc.quickbooks_id = <<GLPrefix(save.entity), save.batch[j].id>> } }
    \cup
    { save.general_ledger[k].lines : k \in { j \in DOMAIN save.general_ledger :
          /\ save.entity = "Invoice"
          /\ save.general_ledger[j].type = "Invoice"
          /\ doc.quickbooks_id = <<"Invoice", save.general_ledger[j].id>> } }

SynthesizedEntries ==
    { i \in DOMAIN save.docs : save.docs[i].doctype = "Journal Entry" }

C25_ProgressEventPerRecord ==
    /\ \A k \in DOMAIN save.published :
          save.published[k] = [count |-> k, total |-> Len(save.batch)]
    /\ save.pc = "loop" => Len(save.published) = save.index - 1
    /\ save.pc \in {"done", "escaped"} => Len(save.published) = Len(save.batch)

\* Whether a posting carries the field, and carries this amount in it.
Carries(posting, f, amount) == f \in DOMAIN posting /\ posting[f] = amount
HasBothSides(posting) ==
    /\ "credit_in_account_currency" \in DOMAIN posting
    /\ "debit_in_account_currency" \in DOMAIN posting

C7_BadRecordNeverAbortsBatch ==
    save.pc # "escaped"

\* An invoice with a linked StatementCharge or ReimburseCharge.
ChargeLinked(invoice) ==
    \/ \E i \in DOMAIN invoice.LinkedTxn : invoice.LinkedTxn[i] = "StatementCharge"
    \/ \E i \in DOMAIN invoice.LinkedTxn : invoice.LinkedTxn[i] = "ReimburseCharge"

\* The documents of the target with a quickbooks_id, by doctype.
DocsOf(doctype, quickbooks_id) ==
    { i \in DOMAIN save.docs :
        save.docs[i].doctype = doctype /\ save.docs[i].quickbooks_id = quickbooks_id }

\* C9: an Invoice linked to a StatementCharge or ReimburseCharge never has a
\* Sales Invoice, and once handled without error it has a Journal Entry of
\* one posting per general-ledger line; every other Invoice never has a
\* Journal Entry, and once handled without error it has a Sales Invoice of
\* one item per item line.
C9_InvoiceRouting ==
    save.entity = "Invoice" =>
      \A k \in DOMAIN save.batch :
        LET invoice == save.batch[k]
            key == <<"Invoice", invoice.Id>>
            sound == /\ k < save.index
                     /\ invoice.CustomerRef = 1
                     /\ invoice.target = "accepts"
        IN IF ChargeLinked(invoice)
           THEN /\ DocsOf("Sales Invoice", key) = {}
                /\ sound /\ HasLedgerEntry(save.general_ledger, "Invoice", invoice.Id)
                   => \E i \in DocsOf("Journal Entry", key) :
                         Len(save.docs[i].accounts)
                           = Len(LedgerEntry(save.general_ledger, "Invoice", invoice.Id).lines)
           ELSE /\ DocsOf("Journal Entry", key) = {}
                /\ sound /\ invoice.Line[1].ItemRef = 1
                   => \E i \in DocsOf("Sales Invoice", key) :
                         /\ Len(save.docs[i].items) = 1
                         /\ save.docs[i].items[1].item_code = invoice.Line[1].ItemRef

\* C9 witness: a batch of a charge-linked Invoice and a plain one was saved,
\* the first as a Journal Entry and the second as a Sales Invoice.
C9_Witness ==
    /\ save.entity = "Invoice"
    /\ save.pc = "done"
    /\ Len(save.batch) = 2
    /\ save.batch[1].LinkedTxn = <<"Payment", "ReimburseCharge">>
    /\ save.batch[2].LinkedTxn = <<>>
    /\ DocsOf("Journal Entry", <<"Invoice", 1>>) # {}
    /\ DocsOf("Sales Invoice", <<"Invoice", 2>>) # {}

(***************************************************************************)
(* _migrate: the steps of a run.  Saving the migrator's own record         *)
(* (set_indicator, self.save()) and the framework calls of                 *)
(* _make_custom_fields and _allow_fraction_in_unit are taken to succeed.   *)
(***************************************************************************)
MaxRuns == 2

entities_for_accounts == <<"Account", "TaxRate", "TaxCode">>

\* The list with Invoice and Payment in each other's place.
entities_for_normal_transform_paymentFirst ==
    <<"Customer", "Item", "Vendor", "Preferences", "JournalEntry", "Purchase",
      "Deposit", "Payment", "CreditMemo", "SalesReceipt", "RefundReceipt", "Bill",
      "VendorCredit", "Invoice", "BillPayment">>

entities_for_normal_transform ==
    <<"Customer", "Item", "Vendor", "Preferences", "JournalEntry", "Purchase",
      "Deposit", "Invoice", "CreditMemo", "SalesReceipt", "RefundReceipt", "Bill",
      "VendorCredit", "Payment", "BillPayment">>

entities_for_gl_transform ==
    <<"Advance Payment", "Tax Payment", "Sales Tax Payment", "Purchase Tax Payment",
      "Inventory Qty Adjust">>

\* The steps of _migrate in program order, each with its argument.
Steps ==
    << <<"set_indicator", "In Progress">>, <<"_make_custom_fields", "">>,
       <<"_make_root_accounts", "">> >>
    \o [i \in DOMAIN entities_for_accounts |->
          <<"_migrate_entries", entities_for_accounts[i]>>]
    \o << <<"_fetch_general_ledger", "">>, <<"_create_fiscal_years", "">>,
          <<"_allow_fraction_in_unit", "">> >>
    \o [i \in DOMAIN entities_for_normal_transform |->
          <<"_migrate_entries", entities_for_normal_transform[i]>>]
    \o [i \in DOMAIN entities_for_gl_transform |->
          <<"_migrate_entries_from_gl", entities_for_gl_transform[i]>>]
    \o << <<"set_indicator", "Complete">> >>

StepKind == Steps[run.step][1]
StepEntity == Steps[run.step][2]

\* An Account of QuickBooks; ParentRef 0 is an account that is no
\* sub-account.
AccountRecord(id, name, account_type, parent) ==
    [Id |-> id, Name |-> name, AccountType |-> account_type, AccountSubType |-> "",
     SubAccount |-> parent # 0, ParentRef |-> parent, is_group |-> FALSE,
     target |-> "accepts"]

BaseAccounts ==
    << AccountRecord(1, "Debtors", "Accounts Receivable", 0),
       AccountRecord(2, "Sales", "Income", 0),
       AccountRecord(3, "Bank", "Bank", 0),
       AccountRecord(4, "Creditors", "Accounts Payable", 0) >>

\* The chart of accounts: no sub-account, a sub-account with a greater Id
\* than its parent, a sub-account with a smaller Id than its parent.
AccountCharts == {"flat", "parent_first", "child_first"}

AccountsOf(chart) ==
    IF chart = "flat" THEN BaseAccounts
    ELSE IF chart = "parent_first"
    THEN BaseAccounts \o << AccountRecord(5, "Savings", "Bank", 0),
                            AccountRecord(6, "Reserve", "Bank", 5) >>
    ELSE BaseAccounts \o << AccountRecord(5, "Reserve", "Bank", 6),
                            AccountRecord(6, "Savings", "Bank", 0) >>

\* The one Invoice of the source: a plain one, one linked to a charge, one
\* of a customer that QuickBooks does not list.
InvoiceKinds == {"plain", "charge", "no_customer"}

InvoiceOf(kind) ==
    IF kind = "plain" THEN SalesRecord(1, <<>>, "none")
    ELSE IF kind = "charge" THEN SalesRecord(1, <<"StatementCharge">>, "none")
    ELSE SalesRecord(1, <<>>, "no_customer")

\* The records QuickBooks holds of an entity type.
SourceOf(source, entity) ==
    CASE entity = "Account" -> AccountsOf(source.chart)
      [] entity = "TaxRate" -> << [Id |-> 1, Name |-> "VAT"] >>
      [] entity = "TaxCode" -> << [Id |-> 1] >>
      [] entity = "Customer" -> << [Id |-> 1, target |-> "accepts"] >>
      [] entity = "Item" ->
            << [Id |-> 1, Type |-> "Service", ExpenseAccountRef |-> 0, target |-> "accepts"],
               [Id |-> 2, Type |-> "Category", ExpenseAccountRef |-> 0, target |-> "accepts"] >>
      [] entity = "Vendor" -> << [Id |-> 1, target |-> "accepts"] >>
      [] entity = "Preferences" -> << [AllowShipping |-> TRUE] >>
      [] entity = "JournalEntry" ->
            << [Id |-> 1, TxnDate |-> MkDate(2020, 2, 1), target |-> "accepts",
                Line |-> << [AccountRef |-> 3, PostingType |-> "Debit", Amount |-> 2],
                            [AccountRef |-> 2, PostingType |-> "Credit", Amount |-> 2] >>] >>
      [] entity = "Purchase" ->
            << [Id |-> 1, AccountRef |-> 3, TotalAmt |-> 2, Credit |-> FALSE,
                TxnDate |-> MkDate(2020, 2, 2), target |-> "accepts",
                Line |-> << [AccountRef |-> 2, Amount |-> 2] >>] >>
      [] entity = "Deposit" ->
            << [Id |-> 1, DepositToAccountRef |-> 3, TotalAmt |-> 2,
                TxnDate |-> MkDate(2020, 2, 3), target |-> "accepts",
                Line |-> << [LinkedTxn |-> FALSE, AccountRef |-> 2, Amount |-> 2] >>] >>
      [] entity = "Invoice" -> << InvoiceOf(source.invoice) >>
      [] entity = "Bill" ->
            << [Id |-> 1, APAccountRef |-> 4, VendorRef |-> 1,
                TxnDate |-> MkDate(2020, 2, 4), target |-> "accepts",
                TxnTaxCodeRef |-> "None",
                Line |-> << [DetailType |-> "ItemBasedExpenseLineDetail", ItemRef |-> 1,
                             AccountRef |-> 0, Qty |-> 2, TaxCodeRef |-> "NON"] >>] >>
      [] entity = "Payment" ->
            << [Id |-> 1, DepositToAccountRef |-> 3, TotalAmt |-> 2,
                TxnDate |-> MkDate(2020, 2, 5), target |-> "accepts",
                Line |-> << [TxnType |-> "Invoice", TxnId |-> 1, Amount |-> 2] >>] >>
      [] entity = "BillPayment" ->
            << [Id |-> 1, PayType |-> "Check", BankAccountRef |-> 3, TotalAmt |-> 2,
                TxnDate |-> MkDate(2020, 2, 6), target |-> "accepts",
                Line |-> << [TxnType |-> "Bill", TxnId |-> 1, Amount |-> 2] >>] >>
      [] OTHER -> <<>>

\* What the General Ledger report of the source reconstructs to.
SourceLedger ==
    << LedgerEntryOf("Invoice", 1, BalancedAmounts, "accepts"),
       LedgerEntryOf("Tax Payment", 1, BalancedAmounts, "accepts"),
       LedgerEntryOf("Advance Payment", 2, BalancedAmounts, "accepts") >>

\* The report reconstructed from Data rows whose tx_date column is empty.
UndatedLedger ==
    [k \in DOMAIN SourceLedger |->
        [SourceLedger[k] EXCEPT
           !.date = NoDate,
           !.lines = [i \in DOMAIN @ |-> [@[i] EXCEPT !.date = NoDate]]]]

\* What the server does to the first request of a step: nothing special, or
\* for one entity type (or for the General Ledger report) the request
\* raises, or its response is not the expected document; or the General
\* Ledger report has no rows, or rows without a date.
Faults ==
    {<<"none", "">>} \cup
    {<<"GeneralLedger", "no_rows">>, <<"GeneralLedger", "undated_rows">>} \cup
    ((({ entities_for_accounts[i] : i \in DOMAIN entities_for_accounts }
        \cup { entities_for_normal_transform[i] : i \in DOMAIN entities_for_normal_transform }
        \cup {"GeneralLedger"})
      \X {"get_raises", "bad_response"}))

\* self.status = status; self.save() that loses the assignment.
set_indicator_notSaved(self, status) == self

\* self.status = status; self.save(); frappe.db.commit()
set_indicator(self, status) == [self EXCEPT !.status = status]

\* _preprocess_entries
_preprocess_entries(entity, entries) ==
    IF entity = "Account" THEN _preprocess_accounts(entries) ELSE entries

RECURSIVE _save_entries(_, _, _, _)
\* The loop of _save_entries from entry i on: it ends with the batch, or
\* with the first exception that leaves a handler.
_save_entries(entity, entries, i, self) ==
    IF i > Len(entries) THEN self
    ELSE LET r == entity_method_map(entity, entries[i],
                     [self EXCEPT !.events = Append(@, <<"save", entity>>)])
         IN IF r.escaped THEN r ELSE _save_entries(entity, entries, i + 1, r)

RECURSIVE ExtendFiscalYears(_, _)
\* The while loop of _create_fiscal_years.
ExtendFiscalYears(fiscal_years, smallest) ==
    IF NeedsEarlierYear(smallest, OldestFiscalYear(fiscal_years))
    THEN ExtendFiscalYears(
            Append(fiscal_years, PrecedingFiscalYear(OldestFiscalYear(fiscal_years))),
            smallest)
    ELSE fiscal_years

\* The dates of the lines of self.gl_entries that are set.
LedgerLineDates(general_ledger) ==
    { dt \in UNION { { general_ledger[k].lines[i].date :
                         i \in DOMAIN general_ledger[k].lines } :
                     k \in DOMAIN general_ledger } : HasDate(dt) }

\* _create_fiscal_years without its try: min() of no date leaves the step.
_create_fiscal_years_noTry(self) ==
    IF LedgerLineDates(self.general_ledger) = {}
    THEN Raises(self)
    ELSE [self EXCEPT
            !.fiscal_years =
                ExtendFiscalYears(@, MinDate(LedgerLineDates(self.general_ledger)))]

\* _create_fiscal_years: min() of no date raises inside the try, which is
\* logged; otherwise the loop extends the fiscal years.
_create_fiscal_years(self) ==
    IF LedgerLineDates(self.general_ledger) = {}
    THEN _log_error(self)
    ELSE [self EXCEPT
            !.fiscal_years =
                ExtendFiscalYears(@, MinDate(LedgerLineDates(self.general_ledger)))]

MigrateInit ==
    /\ http = HttpIdle
    /\ fetch = FetchIdle
    /\ fy = FYIdle
    /\ gl = GLIdle
    /\ save = SaveIdle
    /\ \E chart \in AccountCharts, invoice \in InvoiceKinds, fault \in Faults :
          run = [RunIdle EXCEPT
                   !.pc = "idle",
                   !.source = [chart |-> chart, invoice |-> invoice],
                   !.fault = fault,
                   !.fiscal_years = <<FiscalYearFrom(2020, <<7, 1>>)>>]

\* migrate() enqueues _migrate, which starts with set_indicator("In Progress").
\* The attributes that are no fields of the record start unset in the worker.
Migrate ==
    /\ run.pc \in {"idle", "returned"}
    /\ run.run_no < MaxRuns
    /\ run' = [set_indicator(run, "In Progress") EXCEPT
                 !.pc = "steps", !.step = 2, !.run_no = @ + 1,
                 !.docs_before = Len(run.docs), !.run_errors = 0,
                 !.escaped = FALSE, !.general_ledger = <<>>, !.ledger_set = FALSE,
                 !.events = <<>>]
    /\ UNCHANGED notRun

MakeCustomFields ==
    /\ run.pc = "steps"
    /\ StepKind = "_make_custom_fields"
    /\ run' = [run EXCEPT !.step = @ + 1]
    /\ UNCHANGED notRun

MakeRootAccounts ==
    /\ run.pc = "steps"
    /\ StepKind = "_make_root_accounts"
    /\ run' = [run EXCEPT !.docs = _make_root_accounts(run.docs, 1), !.step = @ + 1]
    /\ UNCHANGED notRun

\* The requests of _migrate_entries for an entity type of entry_count
\* records, in the order sent: the count query, then one page query per
\* window of max_result_count records.
Requests(entity, entry_count) ==
    [k \in 1..(1 + WindowsNeeded(entry_count, CodeMaxResultCount)) |-> <<"get", entity>>]

\* _migrate_entries up to the fetched entries.  When the first _get raises,
\* the except clause raises in turn on `response`; a response without
\* "QueryResponse" raises a KeyError that is logged.
MigrateEntriesFetch ==
    /\ run.pc = "steps"
    /\ StepKind = "_migrate_entries"
    /\ run' = IF run.fault = <<StepEntity, "get_raises">>
              THEN [Raises(run) EXCEPT !.pc = "raised",
                                       !.events = @ \o Requests(StepEntity, 0)]
              ELSE IF run.fault = <<StepEntity, "bad_response">>
              THEN [_log_error(run) EXCEPT !.step = @ + 1,
                                           !.events = @ \o Requests(StepEntity, 0)]
              ELSE [run EXCEPT
                      !.pc = "fetched",
                      !.entries = SourceOf(run.source, StepEntity),
                      !.events = @ \o Requests(StepEntity,
                                               Len(SourceOf(run.source, StepEntity)))]
    /\ UNCHANGED notRun

\* _migrate_entries from the fetched entries on: _preprocess_entries and
\* _save_entries; an exception out of a handler is logged here.
MigrateEntriesSave ==
    /\ run.pc = "fetched"
    /\ LET r == _save_entries(StepEntity,
                              _preprocess_entries(StepEntity, run.entries), 1, run)
       IN run' = [(IF r.escaped THEN _log_error([r EXCEPT !.escaped = FALSE]) ELSE r)
                     EXCEPT !.pc = "steps", !.step = @ + 1, !.entries = <<>>]
    /\ UNCHANGED notRun

\* _fetch_general_ledger, with the same two faults as _migrate_entries.
FetchGeneralLedger ==
    /\ run.pc = "steps"
    /\ StepKind = "_fetch_general_ledger"
    /\ run' = IF run.fault = <<"GeneralLedger", "get_raises">>
              THEN [Raises(run) EXCEPT !.pc = "raised"]
              ELSE IF run.fault = <<"GeneralLedger", "bad_response">>
              THEN [_log_error(run) EXCEPT !.step = @ + 1]
              ELSE [run EXCEPT
                      !.general_ledger =
                          IF run.fault = <<"GeneralLedger", "no_rows">> THEN <<>>
                          ELSE IF run.fault = <<"GeneralLedger", "undated_rows">>
                          THEN UndatedLedger
                          ELSE SourceLedger,
                      !.ledger_set = TRUE, !.step = @ + 1]
    /\ UNCHANGED notRun

\* The step _create_fiscal_years of a run.
CreateFiscalYears ==
    /\ run.pc = "steps"
    /\ StepKind = "_create_fiscal_years"
    /\ LET r == _create_fiscal_years(run)
       IN run' = IF r.escaped THEN [r EXCEPT !.pc = "raised"]
                 ELSE [r EXCEPT !.step = @ + 1]
    /\ UNCHANGED notRun

AllowFractionInUnit ==
    /\ run.pc = "steps"
    /\ StepKind = "_allow_fraction_in_unit"
    /\ run' = [run EXCEPT !.step = @ + 1]
    /\ UNCHANGED notRun

\* _migrate_entries_from_gl: no try.  self.general_ledger is no attribute
\* when _fetch_general_ledger did not get to set it.
MigrateEntriesFromGL ==
    /\ run.pc = "steps"
    /\ StepKind = "_migrate_entries_from_gl"
    /\ LET r == _save_entries(StepEntity,
                   SelectSeq(run.general_ledger, LAMBDA e : e.type = StepEntity), 1, run)
       IN run' = IF ~run.ledger_set THEN [Raises(run) EXCEPT !.pc = "raised"]
                 ELSE IF r.escaped THEN [r EXCEPT !.pc = "raised"]
                 ELSE [r EXCEPT !.step = @ + 1]
    /\ UNCHANGED notRun

\* self.set_indicator("Complete"), then frappe.db.commit() and the return.
MigrateComplete ==
    /\ run.pc = "steps"
    /\ Steps[run.step] = <<"set_indicator", "Complete">>
    /\ run' = [set_indicator(run, "Complete") EXCEPT !.pc = "returned"]
    /\ UNCHANGED notRun

\* except Exception as e: self.set_indicator("Failed"); self._log_error(e)
MigrateFailed ==
    /\ run.pc = "raised"
    /\ run' = [_log_error(set_indicator(run, "Failed")) EXCEPT
                 !.run_errors = @ + 1, !.pc = "returned"]
    /\ UNCHANGED notRun

MigrateNext ==
    \/ Migrate
    \/ MakeCustomFields
    \/ MakeRootAccounts
    \/ MigrateEntriesFetch
    \/ MigrateEntriesSave
    \/ FetchGeneralLedger
    \/ CreateFiscalYears
    \/ AllowFractionInUnit
    \/ MigrateEntriesFromGL
    \/ MigrateComplete
    \/ MigrateFailed

SpecMigrate == MigrateInit /\ [][MigrateNext]_vars

\* C4: a second run of _migrate on the same source leaves the target with
\* the documents it had when that run started.
C4_SecondRunCreatesNothing ==
    run.run_no >= 2 => Len(run.docs) = run.docs_before

\* The last phase of a run alone: _migrate_entries_from_gl for each of the
\* five entity types, on a target without Journal Entries, for a
\* general_ledger of one or two entries of these types with ids 1 and 2.
\* The lines of an entry carry an amount that tells its type and id.
LedgerIds == 1..2

GLEntry(k, id) ==
    LedgerEntryOf(entities_for_gl_transform[k], id,
                  << [credit |-> 0, debit |-> 10 * k + id],
                     [credit |-> 10 * k + id, debit |-> 0] >>, "accepts")

GLEntries == { GLEntry(k, id) : k \in DOMAIN entities_for_gl_transform, id \in LedgerIds }

FirstGLStep ==
    CHOOSE n \in DOMAIN Steps :
        /\ Steps[n][1] = "_migrate_entries_from_gl"
        /\ \A k \in 1..(n - 1) : Steps[k][1] # "_migrate_entries_from_gl"

LedgerInit ==
    /\ http = HttpIdle
    /\ fetch = FetchIdle
    /\ fy = FYIdle
    /\ gl = GLIdle
    /\ save = SaveIdle
    /\ \E ledger \in { <<e>> : e \in GLEntries }
                     \cup { p \in GLEntries \X GLEntries : p[1] # p[2] } :
          run = [RunIdle EXCEPT
                   !.pc = "steps", !.step = FirstGLStep, !.status = "In Progress",
                   !.run_no = 1, !.docs = SeedDocs, !.docs_before = Len(SeedDocs),
                   !.general_ledger = ledger, !.ledger_set = TRUE]

LedgerNext == MigrateEntriesFromGL \/ MigrateComplete

SpecLedger == LedgerInit /\ [][LedgerNext]_vars

\* The Journal Entries of the target that post the lines of a ledger entry.
JournalEntriesOf(entry) ==
    { i \in DOMAIN run.docs :
        /\ run.docs[i].doctype = "Journal Entry"
        /\ run.docs[i].posting_date = entry.date
        /\ run.docs[i].accounts =
              [j \in DOMAIN entry.lines |-> LedgerPosting(entry.lines[j])] }

\* C27: when the entity types of the General Ledger have been migrated to a
\* target without Journal Entries, every ledger entry of these types has a
\* Journal Entry of its own: entries that differ in type or id have
\* different quickbooks_ids and none is skipped for the key of another.
C27_DistinctEntriesDistinctKeys ==
    run.pc = "returned" =>
       /\ \A k \in DOMAIN run.general_ledger :
             Cardinality(JournalEntriesOf(run.general_ledger[k])) = 1
       /\ \A k, n \in DOMAIN run.general_ledger :
             k # n =>
               \A i \in JournalEntriesOf(run.general_ledger[k]),
                  j \in JournalEntriesOf(run.general_ledger[n]) :
                     run.docs[i].quickbooks_id # run.docs[j].quickbooks_id

\* The entity types in the order in which _migrate names them: the three
\* of _migrate_accounts, the fifteen fetched from the API, the five
\* reconstructed from the General Ledger.
EntityOrder ==
    <<"Account", "TaxRate", "TaxCode",
      "Customer", "Item", "Vendor", "Preferences", "JournalEntry", "Purchase",
      "Deposit", "Invoice", "CreditMemo", "SalesReceipt", "RefundReceipt", "Bill",
      "VendorCredit", "Payment", "BillPayment",
      "Advance Payment", "Tax Payment", "Sales Tax Payment", "Purchase Tax Payment",
      "Inventory Qty Adjust">>

PlaceOf(entity) == CHOOSE k \in DOMAIN EntityOrder : EntityOrder[k] = entity

\* C24: of any two requests or saves of one run, the earlier one belongs to
\* the same entity type or to one earlier in the list, and within one
\* entity type no request comes after a save: every entity type is fetched
\* whole, then saved whole, before the next one starts.
C24_EntitiesOneAfterAnother ==
    \A i, j \in DOMAIN run.events :
        i < j =>
          /\ PlaceOf(run.events[i][2]) <= PlaceOf(run.events[j][2])
          /\ run.events[i][2] = run.events[j][2] =>
                ~(run.events[i][1] = "save" /\ run.events[j][1] = "get")

\* C24 witness: a run has returned after the two requests and the two saves
\* of Item, the requests and the save of Invoice and of Payment, and the
\* save of a Tax Payment of the General Ledger, in that order.
C24_Witness ==
    /\ run.pc = "returned"
    /\ run.status = "Complete"
    /\ \E a, b, c, d \in DOMAIN run.events :
          /\ 3 < a /\ a < b /\ b < c /\ c < d
          /\ run.events[a - 3] = <<"get", "Item">>
          /\ run.events[a - 2] = <<"get", "Item">>
          /\ run.events[a - 1] = <<"save", "Item">>
          /\ run.events[a] = <<"save", "Item">>
          /\ run.events[b] = <<"save", "Invoice">>
          /\ run.events[c] = <<"save", "Payment">>
          /\ run.events[d] = <<"save", "Tax Payment">>

\* The entity types that _migrate_entries fetches and saves.
FetchedEntities ==
    { entities_for_accounts[k] : k \in DOMAIN entities_for_accounts }
    \cup { entities_for_normal_transform[k] : k \in DOMAIN entities_for_normal_transform }

\* C29: a run in which a request or a save of one entity type raised inside
\* _migrate_entries has, when it returned, the status "Complete" and has
\* fetched every later entity type of the list.
C29_ExceptionConfinedToEntity ==
    (run.pc = "returned" /\ run.fault[1] \in FetchedEntities) =>
       /\ run.status = "Complete"
       /\ \A entity \in FetchedEntities :
             PlaceOf(entity) > PlaceOf(run.fault[1]) =>
                \E k \in DOMAIN run.events : run.events[k] = <<"get", entity>>

\* C8: while the steps of _migrate run the status is "In Progress"; when
\* _migrate has returned the status is "Failed" and the run handler has
\* logged once if an exception left the steps, and "Complete" with nothing
\* logged by the run handler otherwise.
C8_StatusFollowsRun ==
    /\ run.pc \in {"steps", "fetched", "raised"} => run.status = "In Progress"
    /\ run.pc = "returned" =>
          /\ run.status = IF run.escaped THEN "Failed" ELSE "Complete"
          /\ run.run_errors = IF run.escaped THEN 1 ELSE 0

\* C8 witness: a run whose General Ledger request raised has returned with
\* the status "Failed" and one error logged by the run handler.
C8_Witness ==
    /\ run.pc = "returned"
    /\ run.fault = <<"GeneralLedger", "get_raises">>
    /\ run.escaped
    /\ run.status = "Failed"
    /\ run.run_errors = 1


\* No line of the reconstructed ledger has a date (also when it has no line).
NoLineHasDate ==
    \A k \in DOMAIN run.general_ledger :
       \A i \in DOMAIN run.general_ledger[k].lines :
          ~HasDate(run.general_ledger[k].lines[i].date)

\* C12: when no reconstructed ledger line has a date, the step
\* _create_fiscal_years creates no Fiscal Year and no other document, no
\* exception leaves it and the run goes on to the next step; a run whose
\* report has no rows or no dated rows ends Complete.
C12_NoDatedLineSkipsFiscalYears ==
    /\ [][(run.pc = "steps" /\ StepKind = "_create_fiscal_years" /\ NoLineHasDate) =>
             /\ run'.pc = "steps"
             /\ run'.step = run.step + 1
             /\ ~run'.escaped
             /\ run'.fiscal_years = run.fiscal_years
             /\ run'.docs = run.docs]_vars
    /\ []((run.pc = "returned" /\ run.fault[1] = "GeneralLedger"
              /\ run.fault[2] \in {"no_rows", "undated_rows"}) =>
             /\ run.status = "Complete"
             /\ Len(run.fiscal_years) = 1)

\* C12 witness: a run on a report whose rows have no date went through the
\* fiscal-year step, which logged its error, and ended Complete with the one
\* fiscal year it started with.
C12_Witness ==
    /\ run.pc = "returned"
    /\ run.fault = <<"GeneralLedger", "undated_rows">>
    /\ Len(run.general_ledger) = 3
    /\ run.status = "Complete"
    /\ Len(run.fiscal_years) = 1
    /\ run.log > 0

\* The Invoices, item lines and Payments of the source.
SourceInvoices == SourceOf(run.source, "Invoice")
SourcePayments == SourceOf(run.source, "Payment")
ItemLines(invoice) ==
    { k \in DOMAIN invoice.Line : invoice.Line[k].DetailType = "SalesItemLineDetail" }

\* C13: a document is created for a source record only when the documents
\* the record refers to exist: a Sales Invoice only with the Customer of its
\* CustomerRef and the Item of each item line, the Journal Entry of a
\* Payment only with a Sales Invoice or Journal Entry for every Invoice its
\* lines are linked to.
C13_MissingReferenceCreatesNoDocument ==
    /\ \A n \in DOMAIN SourceInvoices :
          Exists(run.docs, "Sales Invoice", <<"Invoice", SourceInvoices[n].Id>>) =>
             /\ Exists(run.docs, "Customer", <<"", SourceInvoices[n].CustomerRef>>)
             /\ \A k \in ItemLines(SourceInvoices[n]) :
                   Exists(run.docs, "Item", <<"", SourceInvoices[n].Line[k].ItemRef>>)
    /\ \A n \in DOMAIN SourcePayments :
          Exists(run.docs, "Journal Entry", <<"Payment", SourcePayments[n].Id>>) =>
             \A k \in DOMAIN SourcePayments[n].Line :
                SourcePayments[n].Line[k].TxnType = "Invoice" =>
                   \/ Exists(run.docs, "Sales Invoice",
                             <<"Invoice", SourcePayments[n].Line[k].TxnId>>)
                   \/ Exists(run.docs, "Journal Entry",
                             <<"Invoice", SourcePayments[n].Line[k].TxnId>>)

-----------------------------------------------------------------------------
(***************************************************************************)
(* The account migration on its own: _save_entries on the preprocessed     *)
(* accounts of a chart, on a target that holds the root accounts.  Every   *)
(* account has its own verdict of the target: both inserts succeed, the    *)
(* first insert raises, or the insert of the leaf of a group raises.       *)
(***************************************************************************)
AccountTargets == {"accepts", "rejects_insert", "rejects_leaf"}

\* Deeper charts: a chain of three levels in which every parent has the
\* smaller Id, and two sub-accounts that name each other as parent.
DeepCharts == {"chain", "cyclic"}

DeepAccountsOf(chart) ==
    IF chart = "chain"
    THEN << AccountRecord(2, "Sales", "Income", 0),
            AccountRecord(5, "Savings", "Bank", 0),
            AccountRecord(6, "Reserve", "Bank", 5),
            AccountRecord(7, "Float", "Bank", 6) >>
    ELSE << AccountRecord(2, "Sales", "Income", 0),
            AccountRecord(5, "Savings", "Bank", 6),
            AccountRecord(6, "Reserve", "Bank", 5) >>

ChartAccounts(chart) ==
    IF chart \in DeepCharts THEN DeepAccountsOf(chart) ELSE AccountsOf(chart)

AccountInputs ==
    { [SaveStart("Account",
                 _preprocess_accounts(
                    [k \in DOMAIN ChartAccounts(x[1]) |->
                        [ChartAccounts(x[1])[k] EXCEPT !.target = x[2][k]]]),
                 <<>>)
         EXCEPT !.docs = _make_root_accounts(<<>>, 1)] :
        x \in UNION { {chart} \X [DOMAIN ChartAccounts(chart) -> AccountTargets] :
                        chart \in AccountCharts \cup DeepCharts } }

AccountsInit ==
    /\ run = RunIdle
    /\ http = HttpIdle
    /\ fetch = FetchIdle
    /\ fy = FYIdle
    /\ gl = GLIdle
    /\ save \in AccountInputs

SpecAccounts == AccountsInit /\ [][SaveNext]_vars

\* The group accounts made from source accounts, and the leaves of a group:
\* the non-group accounts under it that carry the id of its source account.
GroupAccounts ==
    { i \in DOMAIN save.docs :
        save.docs[i].doctype = "Account" /\ save.docs[i].quickbooks_id[1] = "Group" }
LeavesOf(g) ==
    { i \in DOMAIN save.docs :
        /\ save.docs[i].doctype = "Account"
        /\ save.docs[i].quickbooks_id = <<"", save.docs[g].quickbooks_id[2]>>
        /\ ~save.docs[i].is_group
        /\ save.docs[i].parent_account = save.docs[g].name }

\* C16: in every state of the target during and after the account
\* migration, every group account made from a source account has exactly
\* one non-group child with the source account's id, and every account that
\* a posting finds by a source account id is no group.
C16_GroupHasOneLeaf ==
    /\ \A g \in GroupAccounts : Cardinality(LeavesOf(g)) = 1
    /\ \A i \in DOMAIN save.docs :
          (save.docs[i].doctype = "Account" /\ save.docs[i].quickbooks_id[1] = "")
             => ~save.docs[i].is_group

\* The accounts of the target, and those made from a source account.
AccountDocs == { i \in DOMAIN save.docs : save.docs[i].doctype = "Account" }
CreatedAccounts ==
    { i \in AccountDocs : save.docs[i].quickbooks_id[1] \in {"", "Group"} }
AccountsNamed(name) == { i \in AccountDocs : save.docs[i].name = name }

\* The source account a created account was made from.
SourceAccountOf(i) ==
    save.batch[CHOOSE k \in DOMAIN save.batch :
                  save.batch[k].Id = save.docs[i].quickbooks_id[2]]

\* The root group account of a root type.
RootGroups(root) ==
    { i \in AccountsNamed(<<root, 0>>) :
        /\ save.docs[i].is_group
        /\ save.docs[i].root_type = root
        /\ save.docs[i].parent_account = <<"None", 0>> }

RECURSIVE ReachesRoot(_, _)
\* Following parent_account from account i ends at a root group account
\* within n links.
ReachesRoot(i, n) ==
    \/ \E k \in DOMAIN Roots : i \in RootGroups(Roots[k])
    \/ /\ n > 0
       /\ Cardinality(AccountsNamed(save.docs[i].parent_account)) = 1
       /\ \A j \in AccountsNamed(save.docs[i].parent_account) :
             save.docs[j].is_group /\ ReachesRoot(j, n - 1)

\* The parent of account i is a group account made from source account id.
ParentIsGroupOf(i, id) ==
    \E g \in AccountsNamed(save.docs[i].parent_account) :
        save.docs[g].quickbooks_id = <<"Group", id>> /\ save.docs[g].is_group

\* The parent of account i is the root group account of its account type.
ParentIsRootOf(i, account) ==
    \E g \in RootGroups(mapping(account.AccountType)) :
        save.docs[i].parent_account = save.docs[g].name

\* There is one root group account per root type and the parent links of
\* every created account lead to one.
ForestUnderRoots ==
    /\ \A k \in DOMAIN Roots : Cardinality(RootGroups(Roots[k])) = 1
    /\ \A k \in DOMAIN Roots : AccountsNamed(<<Roots[k], 0>>) = RootGroups(Roots[k])
    /\ \A i \in CreatedAccounts : ReachesRoot(i, Cardinality(AccountDocs))

\* C23 as stated: after the account migration the created accounts form a
\* forest under one root group account per root type, every account made
\* from a sub-account has the group account of its ParentRef as parent and
\* every account made from another account has the root group account of
\* its account type as parent.
C23_AccountForest ==
    save.pc = "done" =>
       /\ ForestUnderRoots
       /\ \A i \in CreatedAccounts :
             LET account == SourceAccountOf(i) IN
             IF account.SubAccount THEN ParentIsGroupOf(i, account.ParentRef)
             ELSE ParentIsRootOf(i, account)

\* The leaf "<Id>" that _save_account makes next to the group "Group - <Id>".
IsLeafOfGroup(i) ==
    save.docs[i].quickbooks_id[1] = "" /\ SourceAccountOf(i).is_group

\* C23 amended: the same for every created account but the leaf of a group
\* account, whose parent is the group account made from the same source
\* account.
C23_AccountForestWithLeaves ==
    save.pc = "done" =>
       /\ ForestUnderRoots
       /\ \A i \in CreatedAccounts :
             LET account == SourceAccountOf(i) IN
             IF IsLeafOfGroup(i) THEN ParentIsGroupOf(i, account.Id)
             ELSE IF account.SubAccount THEN ParentIsGroupOf(i, account.ParentRef)
             ELSE ParentIsRootOf(i, account)

\* C23 witness: the migration of a chain of three accounts ended with the
\* group and leaf of accounts 5 and 6 and the account 7 in the target, 7
\* three links below the Asset root.
C23_Witness ==
    /\ save.pc = "done"
    /\ save.entity = "Account"
    /\ Exists(save.docs, "Account", <<"Group", 5>>)
    /\ Exists(save.docs, "Account", <<"Group", 6>>)
    /\ Exists(save.docs, "Account", <<"", 6>>)
    /\ \E i \in CreatedAccounts :
          /\ save.docs[i].quickbooks_id = <<"", 7>>
          /\ ParentIsGroupOf(i, 6)
          /\ ReachesRoot(i, 3)
          /\ ~ReachesRoot(i, 2)

\* The source account of an Id, and whether the ParentRef links from an
\* account end, within n links, at an account that is no sub-account or
\* whose parent was not fetched.
Fetched(id) == \E k \in DOMAIN save.batch : save.batch[k].Id = id
AccountOfId(id) == save.batch[CHOOSE k \in DOMAIN save.batch : save.batch[k].Id = id]

RECURSIVE EndsWithin(_, _)
EndsWithin(account, n) ==
    \/ ~account.SubAccount
    \/ ~Fetched(account.ParentRef)
    \/ n > 0 /\ EndsWithin(AccountOfId(account.ParentRef), n - 1)

AcyclicChart == \A k \in DOMAIN save.batch : EndsWithin(save.batch[k], Len(save.batch))

\* C30: after the accounts of a chart without a cycle of ParentRef were
\* saved to a target that accepts every account, every sub-account whose
\* parent was fetched with it has an account under a group account of that
\* parent, in whatever order the Ids of parent and child are.
C30_ChildCreatedUnderParentGroup ==
    (/\ save.pc = "done"
     /\ AcyclicChart
     /\ \A k \in DOMAIN save.batch : save.batch[k].target = "accepts")
    => \A k \in DOMAIN save.batch :
          (save.batch[k].SubAccount /\ Fetched(save.batch[k].ParentRef)) =>
             \E i \in CreatedAccounts :
                /\ save.docs[i].quickbooks_id[2] = save.batch[k].Id
                /\ ParentIsGroupOf(i, save.batch[k].ParentRef)

=============================================================================
